---- MODULE Spec2Model ----
(***************************************************************************)
(* A model of the chess rules engine: the Board, the move generator, the   *)
(* move executor (move_piece), the legality filter, the game-state         *)
(* classifier and the Game session (attempt_move).  Squares are the        *)
(* integers 0..63 (rank * 8 + file), as in board/position.rs.              *)
(***************************************************************************)
EXTENDS Integers, Sequences, FiniteSets, TLC

\* ------------------------------------------------------------------------
\* Coordinates (board/file.rs, board/rank.rs, board/position.rs)
\* ------------------------------------------------------------------------
BOARD_SIZE == 64
LENGTH == 8
NoPos == -1

Squares == 0 .. (BOARD_SIZE - 1)

A1 == 0
B1 == 1
C1 == 2
D1 == 3
E1 == 4
F1 == 5
G1 == 6
H1 == 7
A8 == 56
B8 == 57
C8 == 58
D8 == 59
E8 == 60
F8 == 61
G8 == 62
H8 == 63

rank_ONE == 0
rank_TWO == 1
rank_SEVEN == 6
rank_EIGHT == 7

file_valid(f) == f >= 0 /\ f <= 7
rank_valid(r) == r >= 0 /\ r <= 7

file(p) == p % LENGTH
rank(p) == p \div LENGTH

from_file_and_rank(f, r) == (r * 8) + f

from_offset(start, df, dr) ==
    LET new_file == file(start) + df
        new_rank == rank(start) + dr
    IN  IF ~file_valid(new_file) \/ ~rank_valid(new_rank)
        THEN NoPos
        ELSE from_file_and_rank(new_file, new_rank)

\* ------------------------------------------------------------------------
\* Pieces (piece.rs)
\* ------------------------------------------------------------------------
Sides == {"White", "Black"}
PieceTypes == {"Pawn", "Knight", "Bishop", "Rook", "Queen", "King"}
PromotionTypes == {"Knight", "Bishop", "Rook", "Queen"}
NoPromotion == "None"

opponent(side) == IF side = "White" THEN "Black" ELSE "White"

Piece(piece_type, side) == [piece_type |-> piece_type, side |-> side]
EMPTY == [piece_type |-> "None", side |-> "None"]

\* ------------------------------------------------------------------------
\* Board (board.rs)
\* ------------------------------------------------------------------------
CastleRights(ws, wl, bs, bl) ==
    [white_short_castle_rights |-> ws, white_long_castle_rights |-> wl,
     black_short_castle_rights |-> bs, black_long_castle_rights |-> bl]

get_piece(board, position) == board.positions[position]

set_position(board, position, opt_piece) ==
    LET old == board.positions[position]
        w1 == IF old # EMPTY /\ old.side = "White"
              THEN board.white_pieces \ {position} ELSE board.white_pieces
        b1 == IF old # EMPTY /\ old.side = "Black"
              THEN board.black_pieces \ {position} ELSE board.black_pieces
        w2 == IF opt_piece # EMPTY /\ opt_piece.side = "White"
              THEN w1 \cup {position} ELSE w1
        b2 == IF opt_piece # EMPTY /\ opt_piece.side = "Black"
              THEN b1 \cup {position} ELSE b1
    IN  [board EXCEPT !.positions = [@ EXCEPT ![position] = opt_piece],
                      !.white_pieces = w2,
                      !.black_pieces = b2]

add_piece(board, position, piece) == set_position(board, position, piece)

\* take_piece with the side-set update left out.
take_piece_keeps_sets(board, position) ==
    [board EXCEPT !.positions = [@ EXCEPT ![position] = EMPTY]]

\* The board left behind by take_piece; the piece taken is get_piece before.
take_piece(board, position) ==
    LET opt_piece == board.positions[position]
    IN  [board EXCEPT
            !.positions = [@ EXCEPT ![position] = EMPTY],
            !.white_pieces = IF opt_piece # EMPTY /\ opt_piece.side = "White"
                             THEN @ \ {position} ELSE @,
            !.black_pieces = IF opt_piece # EMPTY /\ opt_piece.side = "Black"
                             THEN @ \ {position} ELSE @]

change_turn(board) ==
    IF board.current_turn = "White"
    THEN [board EXCEPT !.current_turn = "Black"]
    ELSE [board EXCEPT !.current_turn = "White", !.full_moves = @ + 1]

RECURSIVE add_pieces(_, _)
add_pieces(board, pieces) ==
    IF pieces = <<>> THEN board
    ELSE add_pieces(add_piece(board, pieces[1][1], pieces[1][2]), Tail(pieces))

Board_empty ==
    [positions |-> [p \in Squares |-> EMPTY],
     white_pieces |-> {},
     black_pieces |-> {},
     current_turn |-> "White",
     castle_rights |-> CastleRights(TRUE, TRUE, TRUE, TRUE),
     en_passant_target |-> NoPos,
     half_moves |-> 0,
     full_moves |-> 1]

Board_new(pieces, current_turn, castle_rights, en_passant_target, half_moves, full_moves) ==
    add_pieces([positions |-> [p \in Squares |-> EMPTY],
                white_pieces |-> {},
                black_pieces |-> {},
                current_turn |-> current_turn,
                castle_rights |-> castle_rights,
                en_passant_target |-> en_passant_target,
                half_moves |-> half_moves,
                full_moves |-> full_moves], pieces)

BackRank == <<"Rook", "Knight", "Bishop", "Queen", "King", "Bishop", "Knight", "Rook">>

Board_default ==
    add_pieces(Board_empty,
        [i \in 1..8 |-> <<from_file_and_rank(i - 1, 1), Piece("Pawn", "White")>>]
        \o [i \in 1..8 |-> <<from_file_and_rank(i - 1, 0), Piece(BackRank[i], "White")>>]
        \o [i \in 1..8 |-> <<from_file_and_rank(i - 1, 6), Piece("Pawn", "Black")>>]
        \o [i \in 1..8 |-> <<from_file_and_rank(i - 1, 7), Piece(BackRank[i], "Black")>>])

\* ------------------------------------------------------------------------
\* Move generator (board/utils.rs)
\* ------------------------------------------------------------------------
MoveKind(kind, arg) == [kind |-> kind, arg |-> arg]
Move == MoveKind("Move", NoPos)
Capture == MoveKind("Capture", NoPos)
ShortCastle == MoveKind("ShortCastle", NoPos)
LongCastle == MoveKind("LongCastle", NoPos)
DoubleMove(target) == MoveKind("DoubleMove", target)
EnPassant(capture) == MoveKind("EnPassant", capture)
Promotion(capture) == MoveKind("Promotion", IF capture THEN 1 ELSE 0)

\* HashMap<Position, MoveKind>: a function on a set of squares.
EmptyMap == [p \in {} |-> Move]
Insert(map, key, value) == (key :> value) @@ map

\* A local binding (Rust's let): F at the value of v, with v evaluated once.
Let(v, F(_)) == CHOOSE r \in {F(x) : x \in {v}} : TRUE

contains_piece(board, position) == get_piece(board, position) # EMPTY

\* Variant: any piece counts as an enemy piece.
contains_enemy_piece_any(board, position, side) ==
    get_piece(board, position) # EMPTY

contains_enemy_piece(board, position, side) ==
    LET piece == get_piece(board, position)
    IN  piece # EMPTY /\ piece.side # side

are_positions_empty(board, positions) ==
    \A position \in positions : ~contains_piece(board, position)

is_en_passant_target(board, position) ==
    board.en_passant_target # NoPos /\ position = board.en_passant_target


get_pawn_moves(board, start, side) ==
    LET forward_rank == IF side = "White" THEN 1 ELSE -1
        forward_one == from_offset(start, 0, forward_rank)
        left_diagonal == IF side = "White" THEN <<-1, 1>> ELSE <<1, -1>>
        right_diagonal == IF side = "White" THEN <<1, 1>> ELSE <<-1, -1>>
        promotion_rank == IF side = "White" THEN rank_EIGHT ELSE rank_ONE
        m1 == IF forward_one # NoPos /\ ~contains_piece(board, forward_one)
              THEN Insert(EmptyMap, forward_one,
                          IF rank(forward_one) = promotion_rank
                          THEN Promotion(FALSE) ELSE Move)
              ELSE EmptyMap
        is_double == \/ (side = "White" /\ rank(start) = rank_TWO)
                     \/ (side = "Black" /\ rank(start) = rank_SEVEN)
        double_one == from_file_and_rank(file(start), rank(start) + forward_rank)
        double_two == from_file_and_rank(file(start), rank(start) + 2 * forward_rank)
        m2 == IF is_double /\ ~contains_piece(board, double_one)
                           /\ ~contains_piece(board, double_two)
              THEN Insert(m1, double_two, DoubleMove(double_one))
              ELSE m1
        \* the closure en_passant_move: the square behind new_position
        en_passant_move(new_position) ==
            LET en_passant_target ==
                    from_file_and_rank(file(new_position),
                                       rank(new_position) - forward_rank)
            IN  IF is_en_passant_target(board, en_passant_target)
                THEN en_passant_target ELSE NoPos
        diagonal(map, offset) ==
            LET new_position == from_offset(start, offset[1], offset[2])
            IN  IF new_position = NoPos THEN map
                ELSE IF contains_enemy_piece(board, new_position, side)
                     THEN Insert(map, new_position,
                                 IF rank(new_position) = promotion_rank
                                 THEN Promotion(TRUE) ELSE Capture)
                     ELSE IF en_passant_move(new_position) # NoPos
                          THEN Insert(map, new_position,
                                      EnPassant(en_passant_move(new_position)))
                          ELSE map
    IN  diagonal(diagonal(m2, left_diagonal), right_diagonal)

\* The loop shared by get_knight_moves and the regular moves of get_king_moves.
RECURSIVE offset_moves(_, _, _, _, _)
offset_moves(board, start, side, offsets, map) ==
    IF offsets = <<>> THEN map
    ELSE LET new_position == from_offset(start, offsets[1][1], offsets[1][2])
             next == IF new_position = NoPos THEN map
                     ELSE IF contains_enemy_piece(board, new_position, side)
                          THEN Insert(map, new_position, Capture)
                          ELSE IF ~contains_piece(board, new_position)
                               THEN Insert(map, new_position, Move)
                               ELSE map
         IN  offset_moves(board, start, side, Tail(offsets), next)

KnightOffsets == << <<1, 2>>, <<2, 1>>, <<1, -2>>, <<2, -1>>,
                    <<-1, 2>>, <<-2, 1>>, <<-2, -1>>, <<-1, -2>> >>
RookOffsets == << <<1, 0>>, <<0, 1>>, <<-1, 0>>, <<0, -1>> >>
BishopOffsets == << <<1, 1>>, <<-1, 1>>, <<1, -1>>, <<-1, -1>> >>
QueenOffsets == RookOffsets \o BishopOffsets
KingOffsets == QueenOffsets

\* get_knight_moves with the four offsets to the right only.
get_knight_moves_rightward(board, start, side) ==
    offset_moves(board, start, side, SubSeq(KnightOffsets, 1, 4), EmptyMap)

get_knight_moves(board, start, side) ==
    offset_moves(board, start, side, KnightOffsets, EmptyMap)

\* add_while_valid going on behind an enemy piece it has included.
RECURSIVE add_while_valid_through(_, _, _, _, _)
add_while_valid_through(board, current_position, side, offset, valid_positions) ==
    IF offset[1] = 0 /\ offset[2] = 0 THEN valid_positions
    ELSE LET new_position == from_offset(current_position, offset[1], offset[2])
         IN  IF new_position = NoPos THEN valid_positions
             ELSE IF ~contains_piece(board, new_position)
                  THEN add_while_valid_through(board, new_position, side, offset,
                                       Insert(valid_positions, new_position, Move))
                  ELSE IF contains_enemy_piece(board, new_position, side)
                       THEN add_while_valid_through(board, new_position, side, offset,
                                       Insert(valid_positions, new_position, Capture))
                       ELSE valid_positions

\* One ray: step while the filter says Continue, include a Capture and stop,
\* stop before an own piece.
RECURSIVE add_while_valid(_, _, _, _, _)
add_while_valid(board, current_position, side, offset, valid_positions) ==
    IF offset[1] = 0 /\ offset[2] = 0 THEN valid_positions
    ELSE LET new_position == from_offset(current_position, offset[1], offset[2])
         IN  IF new_position = NoPos THEN valid_positions
             ELSE IF ~contains_piece(board, new_position)
                  THEN add_while_valid(board, new_position, side, offset,
                                       Insert(valid_positions, new_position, Move))
                  ELSE IF contains_enemy_piece(board, new_position, side)
                       THEN Insert(valid_positions, new_position, Capture)
                       ELSE valid_positions

RECURSIVE get_while_valid_from(_, _, _, _, _)
get_while_valid_from(board, position, side, offsets, valid_positions) ==
    IF offsets = <<>> THEN valid_positions
    ELSE get_while_valid_from(board, position, side, Tail(offsets),
            add_while_valid(board, position, side, offsets[1], valid_positions))

get_while_valid(board, position, side, offsets) ==
    get_while_valid_from(board, position, side, offsets, EmptyMap)

get_rook_moves(board, start, side) == get_while_valid(board, start, side, RookOffsets)
get_bishop_moves(board, start, side) == get_while_valid(board, start, side, BishopOffsets)
get_queen_moves(board, start, side) == get_while_valid(board, start, side, QueenOffsets)

\* The castle candidate of one wing: the right is set and the squares between
\* king and rook are empty.
add_castle(board, map, right, between, end, move_kind) ==
    IF right /\ are_positions_empty(board, between)
    THEN Insert(map, end, move_kind) ELSE map

get_king_moves(board, start, side) ==
    Let(offset_moves(board, start, side, KingOffsets, EmptyMap), LAMBDA regular :
        IF side = "White"
        THEN Let(add_castle(board, regular,
                            board.castle_rights.white_short_castle_rights,
                            {F1, G1}, G1, ShortCastle), LAMBDA s :
                 add_castle(board, s, board.castle_rights.white_long_castle_rights,
                            {B1, C1, D1}, C1, LongCastle))
        ELSE Let(add_castle(board, regular,
                            board.castle_rights.black_short_castle_rights,
                            {F8, G8}, G8, ShortCastle), LAMBDA s :
                 add_castle(board, s, board.castle_rights.black_long_castle_rights,
                            {B8, C8, D8}, C8, LongCastle)))

\* get_piece_moves returns Err when start holds no piece of side.
piece_moves_ok(board, side, start) ==
    get_piece(board, start) # EMPTY /\ get_piece(board, start).side = side

get_piece_moves(board, side, start) ==
    LET piece == get_piece(board, start)
    IN  CASE piece.piece_type = "Pawn" -> get_pawn_moves(board, start, piece.side)
          [] piece.piece_type = "Rook" -> get_rook_moves(board, start, piece.side)
          [] piece.piece_type = "Knight" -> get_knight_moves(board, start, piece.side)
          [] piece.piece_type = "Bishop" -> get_bishop_moves(board, start, piece.side)
          [] piece.piece_type = "King" -> get_king_moves(board, start, piece.side)
          [] piece.piece_type = "Queen" -> get_queen_moves(board, start, piece.side)

side_positions(board, side) ==
    IF side = "White" THEN board.white_pieces ELSE board.black_pieces

get_all_moves(board, side) ==
    [position \in {p \in side_positions(board, side) : piece_moves_ok(board, side, p)}
        |-> get_piece_moves(board, side, position)]

get_all_target_positions(board, side) ==
    UNION {DOMAIN get_piece_moves(board, side, position) :
            position \in {p \in side_positions(board, side) :
                            piece_moves_ok(board, side, p)}}

is_in_check(board, side) ==
    \E target_position \in get_all_target_positions(board, opponent(side)) :
        get_piece(board, target_position) = Piece("King", side)

\* ------------------------------------------------------------------------
\* Move executor (board/utils.rs)
\* ------------------------------------------------------------------------
MoveRequest(start, end, promotion) ==
    [start |-> start, end |-> end, promotion |-> promotion]

NoKind == MoveKind("None", NoPos)

\* get_move without the test for a missing promotion choice.
get_move_any_promotion(board, request) ==
    IF get_piece(board, request.start) = EMPTY
    THEN [ok |-> FALSE, error |-> "NoPiece", move_kind |-> NoKind]
    ELSE IF get_piece(board, request.start).side # board.current_turn
    THEN [ok |-> FALSE, error |-> "NotCurrentPlayer", move_kind |-> NoKind]
    ELSE Let(get_piece_moves(board, board.current_turn, request.start), LAMBDA moves :
             IF request.end \notin DOMAIN moves
             THEN [ok |-> FALSE, error |-> "NotValid", move_kind |-> NoKind]
             ELSE [ok |-> TRUE, error |-> "None", move_kind |-> moves[request.end]])

\* get_move: Ok(move_kind) or one of the errors of get_piece_moves / get_move.
get_move(board, request) ==
    IF get_piece(board, request.start) = EMPTY
    THEN [ok |-> FALSE, error |-> "NoPiece", move_kind |-> NoKind]
    ELSE IF get_piece(board, request.start).side # board.current_turn
    THEN [ok |-> FALSE, error |-> "NotCurrentPlayer", move_kind |-> NoKind]
    ELSE Let(get_piece_moves(board, board.current_turn, request.start), LAMBDA moves :
             IF request.end \notin DOMAIN moves
             THEN [ok |-> FALSE, error |-> "NotValid", move_kind |-> NoKind]
             ELSE IF moves[request.end].kind = "Promotion"
                     /\ request.promotion = NoPromotion
             THEN [ok |-> FALSE, error |-> "MissingPromotion", move_kind |-> NoKind]
             ELSE [ok |-> TRUE, error |-> "None", move_kind |-> moves[request.end]])

NoInfo ==
    [start |-> NoPos, end |-> NoPos, piece_type |-> "None", is_capture |-> FALSE,
     file_disambiguation |-> FALSE, rank_disambiguation |-> FALSE,
     move_kind |-> NoKind, move_state |-> "None", promotion |-> NoPromotion]

\* The square the king crosses when it castles.
transit_square(side, move_kind) ==
    CASE side = "White" /\ move_kind = ShortCastle -> F1
      [] side = "White" /\ move_kind = LongCastle -> D1
      [] side = "Black" /\ move_kind = ShortCastle -> F8
      [] side = "Black" /\ move_kind = LongCastle -> D8
      [] OTHER -> NoPos

\* pass_through_check testing the square the king lands on instead of the
\* square it crosses.
pass_through_check_at_destination(board, side, move_kind) ==
    /\ transit_square(side, move_kind) # NoPos
    /\ from_offset(transit_square(side, move_kind),
                   IF move_kind = ShortCastle THEN 1 ELSE -1, 0)
            \in get_all_target_positions(board, opponent(side))

pass_through_check(board, side, move_kind) ==
    /\ transit_square(side, move_kind) # NoPos
    /\ transit_square(side, move_kind)
            \in get_all_target_positions(board, opponent(side))

\* let rook = board.take_piece(corner).unwrap(); board.set_position(dest,
\* Some(rook)).  ok = FALSE is the panic of unwrap() on an empty corner.
castle_rook(board, corner, dest) ==
    IF get_piece(board, corner) = EMPTY
    THEN [ok |-> FALSE, board |-> board]
    ELSE [ok |-> TRUE,
          board |-> set_position(take_piece(board, corner), dest,
                                 get_piece(board, corner))]

\* revoke_rights with a king move revoking the short right only.
revoke_rights_king_short_only(rights, moving_piece, start) ==
    CASE moving_piece = Piece("Rook", "White") /\ start = A1 ->
            [rights EXCEPT !.white_long_castle_rights = FALSE]
      [] moving_piece = Piece("Rook", "White") /\ start = H1 ->
            [rights EXCEPT !.white_short_castle_rights = FALSE]
      [] moving_piece = Piece("Rook", "Black") /\ start = A8 ->
            [rights EXCEPT !.black_long_castle_rights = FALSE]
      [] moving_piece = Piece("Rook", "Black") /\ start = H8 ->
            [rights EXCEPT !.black_short_castle_rights = FALSE]
      [] moving_piece = Piece("King", "White") ->
            [rights EXCEPT !.white_short_castle_rights = FALSE]
      [] moving_piece = Piece("King", "Black") ->
            [rights EXCEPT !.black_short_castle_rights = FALSE]
      [] OTHER -> rights

\* The rights a move of moving_piece from start leaves.
revoke_rights(rights, moving_piece, start) ==
    CASE moving_piece = Piece("Rook", "White") /\ start = A1 ->
            [rights EXCEPT !.white_long_castle_rights = FALSE]
      [] moving_piece = Piece("Rook", "White") /\ start = H1 ->
            [rights EXCEPT !.white_short_castle_rights = FALSE]
      [] moving_piece = Piece("Rook", "Black") /\ start = A8 ->
            [rights EXCEPT !.black_long_castle_rights = FALSE]
      [] moving_piece = Piece("Rook", "Black") /\ start = H8 ->
            [rights EXCEPT !.black_short_castle_rights = FALSE]
      [] moving_piece = Piece("King", "White") ->
            [rights EXCEPT !.white_long_castle_rights = FALSE,
                           !.white_short_castle_rights = FALSE]
      [] moving_piece = Piece("King", "Black") ->
            [rights EXCEPT !.black_long_castle_rights = FALSE,
                           !.black_short_castle_rights = FALSE]
      [] OTHER -> rights

\* The castling block of move_piece ("Handle castling"): the rights are
\* revoked and, for a castle, the piece on the corner is unwrapped and put
\* beside the king.
handle_castling(board, moving_piece, start, move_kind) ==
    Let([board EXCEPT !.castle_rights = revoke_rights(@, moving_piece, start)],
        LAMBDA b :
        CASE moving_piece = Piece("King", "White") /\ move_kind = ShortCastle ->
                castle_rook(b, H1, F1)
          [] moving_piece = Piece("King", "White") /\ move_kind = LongCastle ->
                castle_rook(b, A1, D1)
          [] moving_piece = Piece("King", "Black") /\ move_kind = ShortCastle ->
                castle_rook(b, H8, F8)
          [] moving_piece = Piece("King", "Black") /\ move_kind = LongCastle ->
                castle_rook(b, A8, D8)
          [] OTHER -> [ok |-> TRUE, board |-> b])

move_is_capture(move_kind) ==
    \/ move_kind = Capture
    \/ move_kind.kind = "EnPassant"
    \/ move_kind = Promotion(TRUE)

\* update_half_moves resetting the clock on a pawn move only.
update_half_moves_pawn_only(board, moving_piece, move_kind) ==
    IF moving_piece.piece_type = "Pawn"
    THEN [board EXCEPT !.half_moves = 0]
    ELSE [board EXCEPT !.half_moves = @ + 1]

update_half_moves(board, moving_piece, move_kind) ==
    IF moving_piece.piece_type = "Pawn" \/ move_is_capture(move_kind)
    THEN [board EXCEPT !.half_moves = 0]
    ELSE [board EXCEPT !.half_moves = @ + 1]

\* An early return of move_piece placed after the piece has been taken from
\* the start square.
move_error_after_take(board, request, error) ==
    [status |-> "Err", error |-> error, board |-> take_piece(board, request.start),
     info |-> NoInfo]

\* An early return of move_piece with Err(MoveError): nothing has been taken
\* from the board yet.
move_error(board, request, error) ==
    [status |-> "Err", error |-> error, board |-> board, info |-> NoInfo]

\* The MoveInfo move_piece returns.
move_info(request, moving_piece, move_kind) ==
    [start |-> request.start, end |-> request.end,
     piece_type |-> moving_piece.piece_type,
     is_capture |-> move_is_capture(move_kind),
     file_disambiguation |-> FALSE,
     rank_disambiguation |-> FALSE,
     move_kind |-> move_kind,
     move_state |-> "None",
     promotion |-> request.promotion]

\* file::to_char and rank::to_char.
FileChars == <<"a", "b", "c", "d", "e", "f", "g", "h">>
RankChars == <<"1", "2", "3", "4", "5", "6", "7", "8">>

file_to_char(f) == IF f >= 0 /\ f <= 7 THEN FileChars[f + 1] ELSE "?"
rank_to_char(r) == IF r >= 0 /\ r <= 7 THEN RankChars[r + 1] ELSE "?"

\* Display for Position: the file letter, then the rank digit.
Position_fmt(position) ==
    <<file_to_char(file(position)), rank_to_char(rank(position))>>

\* PromotionType::to_algebraic
to_algebraic(promotion) ==
    CASE promotion = "Knight" -> "N"
      [] promotion = "Bishop" -> "B"
      [] promotion = "Rook" -> "R"
      [] promotion = "Queen" -> "Q"

\* The first component of a move that is not a castle: the piece letter, or
\* for a pawn the origin file when it captures.
piece_prefix(info) ==
    CASE info.piece_type = "Pawn" ->
            IF info.is_capture THEN <<file_to_char(file(info.start))>> ELSE <<>>
      [] info.piece_type = "Knight" -> <<"N">>
      [] info.piece_type = "Bishop" -> <<"B">>
      [] info.piece_type = "Rook" -> <<"R">>
      [] info.piece_type = "Queen" -> <<"Q">>
      [] info.piece_type = "King" -> <<"K">>

\* check_suffix without the '#' of Checkmate.
check_suffix_check_only(move_state) ==
    IF move_state = "Check" THEN <<"+">> ELSE <<>>

\* The trailing component: '+' for Some(Check), '#' for Some(Checkmate).
check_suffix(move_state) ==
    CASE move_state = "Check" -> <<"+">>
      [] move_state = "Checkmate" -> <<"#">>
      [] OTHER -> <<>>

\* The components of a move that is not a castle, in the order pushed.
move_notation(info) ==
    piece_prefix(info)
    \o (IF info.file_disambiguation
        THEN <<file_to_char(file(info.start))>> ELSE <<>>)
    \o (IF info.rank_disambiguation
        THEN <<rank_to_char(rank(info.start))>> ELSE <<>>)
    \o (IF info.is_capture THEN <<"x">> ELSE <<>>)
    \o Position_fmt(info.end)
    \o (IF info.promotion # NoPromotion
        THEN <<"=", to_algebraic(info.promotion)>> ELSE <<>>)

\* to_notation rendering a castle as the king move it is.
to_notation_castle_as_king_move(info) ==
    move_notation(info) \o check_suffix(info.move_state)

\* MoveInfo::to_notation: the String as the sequence of its characters.
to_notation(info) ==
    (CASE info.move_kind = ShortCastle -> <<"O", "-", "O">>
       [] info.move_kind = LongCastle -> <<"O", "-", "O", "-", "O">>
       [] OTHER -> move_notation(info))
    \o check_suffix(info.move_state)

\* apply_move leaving the en-passant target alone when the move is not a
\* DoubleMove.
apply_move_keeps_target(board, request, move_kind) ==
    Let(get_piece(board, request.start), LAMBDA moving_piece :
    Let(take_piece(board, request.start), LAMBDA b1 :
    Let(IF move_kind.kind = "EnPassant"
        THEN set_position(b1, move_kind.arg, EMPTY) ELSE b1, LAMBDA b2 :
    Let([b2 EXCEPT !.en_passant_target =
            IF move_kind.kind = "DoubleMove" THEN move_kind.arg ELSE @],
        LAMBDA b3 :
    Let(handle_castling(b3, moving_piece, request.start, move_kind), LAMBDA c4 :
        IF ~c4.ok
        THEN [status |-> "Panic", error |-> "None", board |-> c4.board,
              info |-> NoInfo]
        ELSE
        Let(update_half_moves(c4.board, moving_piece, move_kind), LAMBDA b5 :
        Let(IF move_kind.kind = "Promotion"
            THEN Piece(request.promotion, b5.current_turn)
            ELSE moving_piece, LAMBDA piece :
            [status |-> "Ok", error |-> "None",
             board |-> change_turn(set_position(b5, request.end, piece)),
             info |-> move_info(request, moving_piece, move_kind)])))))))

\* move_piece from "Always take the piece from the start square" on: the
\* request has been resolved to move_kind.
apply_move(board, request, move_kind) ==
    Let(get_piece(board, request.start), LAMBDA moving_piece :
    Let(take_piece(board, request.start), LAMBDA b1 :
    Let(IF move_kind.kind = "EnPassant"
        THEN set_position(b1, move_kind.arg, EMPTY) ELSE b1, LAMBDA b2 :
    Let([b2 EXCEPT !.en_passant_target =
            IF move_kind.kind = "DoubleMove" THEN move_kind.arg ELSE NoPos],
        LAMBDA b3 :
    Let(handle_castling(b3, moving_piece, request.start, move_kind), LAMBDA c4 :
        IF ~c4.ok
        THEN [status |-> "Panic", error |-> "None", board |-> c4.board,
              info |-> NoInfo]
        ELSE
        Let(update_half_moves(c4.board, moving_piece, move_kind), LAMBDA b5 :
        Let(IF move_kind.kind = "Promotion"
            THEN Piece(request.promotion, b5.current_turn)
            ELSE moving_piece, LAMBDA piece :
            [status |-> "Ok", error |-> "None",
             board |-> change_turn(set_position(b5, request.end, piece)),
             info |-> move_info(request, moving_piece, move_kind)])))))))

\* move_piece: status is "Ok" (board is the board after the move), "Err" (the
\* function returned Err; board is the board it leaves) or "Panic" (an unwrap
\* failed; board is the board at that point).
move_piece(board, request) ==
    Let(get_move(board, request), LAMBDA got :
        IF ~got.ok
        THEN move_error(board, request, got.error)
        ELSE IF (got.move_kind = ShortCastle \/ got.move_kind = LongCastle)
                /\ pass_through_check(board, board.current_turn, got.move_kind)
        THEN move_error(board, request, "ThroughCheck")
        ELSE apply_move(board, request, got.move_kind))

\* ------------------------------------------------------------------------
\* Legality filter and game-state classifier (board/utils.rs)
\* ------------------------------------------------------------------------
\* The request get_all_legal_moves probes a candidate with.
probe_request(start, end, move_kind) ==
    IF move_kind.kind = "Promotion"
    THEN MoveRequest(start, end, "Queen")
    ELSE MoveRequest(start, end, NoPromotion)

\* The predicate of retain() without the test that side is not in check.
retain_move_unchecked(board, side, start, end, move_kind) ==
    move_piece(board, probe_request(start, end, move_kind)).status = "Ok"

\* The predicate of retain(): the probe succeeds and side is not in check.
retain_move(board, side, start, end, move_kind) ==
    Let(move_piece(board, probe_request(start, end, move_kind)), LAMBDA probe :
        probe.status = "Ok" /\ ~is_in_check(probe.board, side))

\* The probe of the candidate start -> end panics.  Only the probe of a
\* castling candidate reaches an unwrap that can fail (the corner square).
probe_panics(board, start, end, move_kind) ==
    /\ move_kind.kind \in {"ShortCastle", "LongCastle"}
    /\ move_piece(board, probe_request(start, end, move_kind)).status = "Panic"

\* Some probe of get_all_legal_moves panics.
legal_moves_panic(board, side) ==
    Let(get_all_moves(board, side), LAMBDA all_moves :
        \E start \in DOMAIN all_moves : \E end \in DOMAIN all_moves[start] :
            probe_panics(board, start, end, all_moves[start][end]))

\* piece_moves.retain(...) for the piece on start.
retained_moves(board, side, start, piece_moves) ==
    [end \in {e \in DOMAIN piece_moves :
                retain_move(board, side, start, e, piece_moves[e])}
        |-> piece_moves[end]]

\* HashMap<Position, HashMap<Position, MoveKind>>; pieces left with no move
\* are not inserted.
get_all_legal_moves(board, side) ==
    Let(get_all_moves(board, side), LAMBDA all_moves :
    Let([start \in DOMAIN all_moves |->
            retained_moves(board, side, start, all_moves[start])], LAMBDA kept :
        [start \in {s \in DOMAIN kept : DOMAIN kept[s] # {}} |-> kept[start]]))

HALF_MOVE_LIMIT == 100

\* classify asking whether the side that just moved is in check.
classify_checks_opponent(board, all_legal_moves) ==
    IF DOMAIN all_legal_moves = {}
    THEN IF is_in_check(board, opponent(board.current_turn))
         THEN "Checkmate" ELSE "Stalemate"
    ELSE IF board.half_moves = HALF_MOVE_LIMIT THEN "Stalemate"
    ELSE IF is_in_check(board, opponent(board.current_turn)) THEN "Check"
    ELSE "CanMove"

\* The classification, given the legal moves of the side to move.
classify(board, all_legal_moves) ==
    IF DOMAIN all_legal_moves = {}
    THEN IF is_in_check(board, board.current_turn)
         THEN "Checkmate" ELSE "Stalemate"
    ELSE IF board.half_moves = HALF_MOVE_LIMIT THEN "Stalemate"
    ELSE IF is_in_check(board, board.current_turn) THEN "Check"
    ELSE "CanMove"

get_move_state(board) ==
    classify(board, get_all_legal_moves(board, board.current_turn))

\* The en-passant availability test (both diagonals are computed from the
\* target with the offsets the source uses).
possible_en_passant_capture(board) ==
    IF board.en_passant_target = NoPos THEN FALSE
    ELSE LET target == board.en_passant_target
             side == board.current_turn
             left_diagonal == IF side = "White" THEN from_offset(target, -1, -1)
                              ELSE from_offset(target, -1, 1)
             right_diagonal == IF side = "White" THEN from_offset(target, 1, -1)
                               ELSE from_offset(target, -1, -1)
             capture_from(p) == /\ p # NoPos
                                /\ piece_moves_ok(board, side, p)
                                /\ target \in DOMAIN get_piece_moves(board, side, p)
         IN  capture_from(left_diagonal) \/ capture_from(right_diagonal)

\* ------------------------------------------------------------------------
\* Position records (fen/generate.rs, fen/parse.rs)
\* ------------------------------------------------------------------------
generate_castling_availability(castle_rights) ==
    LET k == IF castle_rights.white_short_castle_rights THEN <<"K">> ELSE <<>>
        q == IF castle_rights.white_long_castle_rights THEN <<"Q">> ELSE <<>>
        bk == IF castle_rights.black_short_castle_rights THEN <<"k">> ELSE <<>>
        bq == IF castle_rights.black_long_castle_rights THEN <<"q">> ELSE <<>>
        all == k \o q \o bk \o bq
    IN  IF all = <<>> THEN <<"-">> ELSE all

\* The placement field lists the occupied squares rank 8 first, file a first.
RECURSIVE placement_from(_, _)
placement_from(board, n) ==
    IF n = BOARD_SIZE THEN <<>>
    ELSE LET position == from_file_and_rank(n % 8, 7 - (n \div 8))
         IN  (IF contains_piece(board, position)
              THEN << <<position, get_piece(board, position)>> >> ELSE <<>>)
             \o placement_from(board, n + 1)

generate_piece_placement(board) == placement_from(board, 0)

fen_generate(board) ==
    [piece_placement |-> generate_piece_placement(board),
     active_color |-> IF board.current_turn = "White" THEN "w" ELSE "b",
     castling_availability |-> generate_castling_availability(board.castle_rights),
     en_passant_target |-> board.en_passant_target,
     half_moves |-> board.half_moves,
     full_moves |-> board.full_moves]

SeqHas(seq, x) == \E i \in 1..Len(seq) : seq[i] = x

parse_castling_availability(text) ==
    CastleRights(SeqHas(text, "K"), SeqHas(text, "Q"), SeqHas(text, "k"), SeqHas(text, "q"))

fen_parse(fen) ==
    Board_new(fen.piece_placement,
              IF fen.active_color = "w" THEN "White" ELSE "Black",
              parse_castling_availability(fen.castling_availability),
              fen.en_passant_target, fen.half_moves, fen.full_moves)

\* ------------------------------------------------------------------------
\* Game session (game.rs)
\* ------------------------------------------------------------------------
\* The key of the repetition table: placement, side to move, castling rights
\* and en-passant availability; the two counters are left out.
get_repetition_state(board) ==
    [positions |-> board.positions,
     current_turn |-> board.current_turn,
     castle_rights |-> board.castle_rights,
     en_passant |-> possible_en_passant_capture(board)]

Game_new(board) ==
    [board |-> board,
     index |-> 0,
     history |-> <<fen_generate(board)>>,
     repetitions |-> (get_repetition_state(board) :> 1)]

\* stalemate_by_repetition with the count compared by > instead of >=.
stalemate_after_third_repetition(game) ==
    \E key \in DOMAIN game.repetitions : game.repetitions[key] > 3

stalemate_by_repetition(game) ==
    \E key \in DOMAIN game.repetitions : game.repetitions[key] >= 3

\* Game::get_move_state (it panics when the board-local classifier does, see
\* before_move).
Game_get_move_state(game) ==
    IF stalemate_by_repetition(game) THEN "Stalemate"
    ELSE get_move_state(game.board)

count_repetition(repetitions, key) ==
    IF key \in DOMAIN repetitions
    THEN [repetitions EXCEPT ![key] = @ + 1]
    ELSE (key :> 1) @@ repetitions

\* disambiguation with the two flags exchanged.
disambiguation_swapped(board, all_legal_moves, request) ==
    LET moving_piece == get_piece(board, request.start)
        others == {piece_position \in DOMAIN all_legal_moves :
                    /\ piece_position # request.start
                    /\ get_piece(board, piece_position).piece_type
                            = moving_piece.piece_type
                    /\ request.end \in DOMAIN all_legal_moves[piece_position]}
    IN  [rank |-> \E p \in others : rank(p) = rank(request.start),
         file |-> \E p \in others : file(p) = file(request.start)]

\* The two flags computed before the board changes.
disambiguation(board, all_legal_moves, request) ==
    LET moving_piece == get_piece(board, request.start)
        others == {piece_position \in DOMAIN all_legal_moves :
                    /\ piece_position # request.start
                    /\ get_piece(board, piece_position).piece_type
                            = moving_piece.piece_type
                    /\ request.end \in DOMAIN all_legal_moves[piece_position]}
    IN  [rank |-> \E p \in others : file(p) = file(request.start),
         file |-> \E p \in others : rank(p) = rank(request.start)]

\* What attempt_move computes before it looks at the request: whether the
\* classifier panics, the state it reports and the legal moves of the side
\* to move.
before_move(game) ==
    IF stalemate_by_repetition(game)
    THEN [panics |-> FALSE, move_state |-> "Stalemate", all_legal_moves |-> EmptyMap]
    ELSE IF legal_moves_panic(game.board, game.board.current_turn)
    THEN [panics |-> TRUE, move_state |-> "None", all_legal_moves |-> EmptyMap]
    ELSE Let(get_all_legal_moves(game.board, game.board.current_turn),
             LAMBDA all_legal_moves :
             [panics |-> FALSE,
              move_state |-> classify(game.board, all_legal_moves),
              all_legal_moves |-> all_legal_moves])

\* is_game_over testing Checkmate only.
is_checkmate_only(move_state) == move_state = "Checkmate"

\* The test attempt_move makes on the state get_move_state reports.
is_game_over(move_state) == move_state = "Checkmate" \/ move_state = "Stalemate"

attempt_error(game, error) ==
    [status |-> "Err", error |-> error, info |-> NoInfo, game |-> game]

attempt_panic(game) ==
    [status |-> "Panic", error |-> "None", info |-> NoInfo, game |-> game]

\* Variant: the future states are kept.
push_history_keeps_future(history, index, new_fen) == Append(history, new_fen)

\* The history after the push: the future states are dropped first.
push_history(history, index, new_fen) ==
    Append(IF index + 1 < Len(history) THEN SubSeq(history, 1, index + 1)
           ELSE history, new_fen)

\* attempt_move after move_piece returned Ok: moved is its result, flags the
\* disambiguation computed before it.
record_move(game, moved, flags) ==
    Let([game EXCEPT !.board = moved.board], LAMBDA g1 :
    Let(before_move(g1), LAMBDA after :
        IF after.panics THEN attempt_panic(g1)
        ELSE [status |-> "Ok", error |-> "None",
              info |-> [moved.info EXCEPT
                            !.move_state = after.move_state,
                            !.rank_disambiguation = flags.rank,
                            !.file_disambiguation = flags.file],
              game |-> [g1 EXCEPT
                            !.history = push_history(@, g1.index,
                                                     fen_generate(g1.board)),
                            !.index = @ + 1,
                            !.repetitions = count_repetition(@,
                                    get_repetition_state(g1.board))]]))

\* Game::attempt_move as a function of the Game, the request and before_move
\* of the Game: the status ("Ok", "Err", "Panic"), the error, the MoveInfo and
\* the Game it leaves.
attempt_move_from(game, request, before) ==
    IF before.panics THEN attempt_panic(game)
    ELSE IF is_game_over(before.move_state) THEN attempt_error(game, "GameOver")
    ELSE IF ~(/\ request.start \in DOMAIN before.all_legal_moves
              /\ request.end \in DOMAIN before.all_legal_moves[request.start])
    THEN attempt_error(game, "InvalidMove")
    ELSE Let(disambiguation(game.board, before.all_legal_moves, request),
             LAMBDA flags :
         Let(move_piece(game.board, request), LAMBDA moved :
             IF moved.status = "Err" THEN attempt_error(game, moved.error)
             ELSE IF moved.status = "Panic"
             THEN attempt_panic([game EXCEPT !.board = moved.board])
             ELSE record_move(game, moved, flags)))

attempt_move(game, request) == attempt_move_from(game, request, before_move(game))

\* Game::next_move: the value returned and the Game it leaves. The entry
\* parsed was written by fen::generate, so the unwrap does not fail.
next_move(game) ==
    IF game.index + 1 < Len(game.history)
    THEN [returned |-> TRUE,
          game |-> [game EXCEPT !.index = @ + 1,
                                !.board = fen_parse(game.history[game.index + 2])]]
    ELSE [returned |-> FALSE, game |-> game]

\* Variant: the board is left as it was.
previous_move_keeps_board(game) ==
    IF game.index > 0
    THEN [returned |-> TRUE, game |-> [game EXCEPT !.index = @ - 1]]
    ELSE [returned |-> FALSE, game |-> game]

\* Game::previous_move.
previous_move(game) ==
    IF game.index > 0
    THEN [returned |-> TRUE,
          game |-> [game EXCEPT !.index = @ - 1,
                                !.board = fen_parse(game.history[game.index])]]
    ELSE [returned |-> FALSE, game |-> game]

\* ------------------------------------------------------------------------
\* Positions and requests the model is run on
\* ------------------------------------------------------------------------
xx == EMPTY
WP == Piece("Pawn", "White")
WN == Piece("Knight", "White")
WB == Piece("Bishop", "White")
WR == Piece("Rook", "White")
WQ == Piece("Queen", "White")
WK == Piece("King", "White")
BP == Piece("Pawn", "Black")
BN == Piece("Knight", "Black")
BB == Piece("Bishop", "Black")
BR == Piece("Rook", "Black")
BQ == Piece("Queen", "Black")
BK == Piece("King", "Black")

\* parse_piece_placement: the ranks are read 8 first, the files a first.
RECURSIVE parse_piece_placement(_, _)
parse_piece_placement(rows, n) ==
    IF n = BOARD_SIZE THEN <<>>
    ELSE LET item == rows[(n \div 8) + 1][(n % 8) + 1]
         IN  (IF item # EMPTY
              THEN << <<from_file_and_rank(n % 8, 7 - (n \div 8)), item>> >>
              ELSE <<>>)
             \o parse_piece_placement(rows, n + 1)

fen_board(rows, active_color, castling, en_passant_target, half_moves, full_moves) ==
    fen_parse([piece_placement |-> parse_piece_placement(rows, 0),
               active_color |-> active_color,
               castling_availability |-> castling,
               en_passant_target |-> en_passant_target,
               half_moves |-> half_moves,
               full_moves |-> full_moves])

file_A == 0
file_B == 1
file_C == 2
file_D == 3
file_E == 4
file_F == 5
file_G == 6
file_H == 7

\* Position::from_notation of a file letter and a rank digit.
sq(f, digit) == from_file_and_rank(f, digit - 1)

\* MoveRequest::from_coordinate, e.g. "e2e4" and "b7c8q".
mv(f1, r1, f2, r2) == MoveRequest(sq(f1, r1), sq(f2, r2), NoPromotion)
mvp(f1, r1, f2, r2, promotion) == MoveRequest(sq(f1, r1), sq(f2, r2), promotion)

\* r3k2r/8/b7/8/8/7B/8/R3K2R w KQkq - 98 1
Castle_board ==
    fen_board(<< <<BR, xx, xx, xx, BK, xx, xx, BR>>,
                 <<xx, xx, xx, xx, xx, xx, xx, xx>>,
                 <<BB, xx, xx, xx, xx, xx, xx, xx>>,
                 <<xx, xx, xx, xx, xx, xx, xx, xx>>,
                 <<xx, xx, xx, xx, xx, xx, xx, xx>>,
                 <<xx, xx, xx, xx, xx, xx, xx, WB>>,
                 <<xx, xx, xx, xx, xx, xx, xx, xx>>,
                 <<WR, xx, xx, xx, WK, xx, xx, WR>> >>,
              "w", <<"K", "Q", "k", "q">>, NoPos, 98, 1)

\* 7k/5K2/8/8/8/8/8/6Q1 w - - 0 1
Mate_board ==
    fen_board(<< <<xx, xx, xx, xx, xx, xx, xx, BK>>,
                 <<xx, xx, xx, xx, xx, WK, xx, xx>>,
                 <<xx, xx, xx, xx, xx, xx, xx, xx>>,
                 <<xx, xx, xx, xx, xx, xx, xx, xx>>,
                 <<xx, xx, xx, xx, xx, xx, xx, xx>>,
                 <<xx, xx, xx, xx, xx, xx, xx, xx>>,
                 <<xx, xx, xx, xx, xx, xx, xx, xx>>,
                 <<xx, xx, xx, xx, xx, xx, WQ, xx>> >>,
              "w", <<"-">>, NoPos, 0, 1)

\* n1r3k1/1P6/8/8/8/8/8/7K w - - 0 1
Promotion_board ==
    fen_board(<< <<BN, xx, BR, xx, xx, xx, BK, xx>>,
                 <<xx, WP, xx, xx, xx, xx, xx, xx>>,
                 <<xx, xx, xx, xx, xx, xx, xx, xx>>,
                 <<xx, xx, xx, xx, xx, xx, xx, xx>>,
                 <<xx, xx, xx, xx, xx, xx, xx, xx>>,
                 <<xx, xx, xx, xx, xx, xx, xx, xx>>,
                 <<xx, xx, xx, xx, xx, xx, xx, xx>>,
                 <<xx, xx, xx, xx, xx, xx, xx, WK>> >>,
              "w", <<"-">>, NoPos, 0, 1)

\* From the starting position: a white knight goes g1-f3-g5-f7-h8 and back
\* to f7 while Black clears f8 and g8 and may castle short.
TourRequests ==
    { mv(file_G, 1, file_F, 3), mv(file_F, 3, file_G, 5), mv(file_G, 5, file_F, 7),
      mv(file_F, 7, file_H, 8), mv(file_H, 8, file_F, 7),
      mv(file_G, 8, file_F, 6), mv(file_E, 7, file_E, 6), mv(file_F, 8, file_E, 7),
      mv(file_E, 7, file_D, 6), mv(file_E, 8, file_G, 8) }

\* From the starting position: both sides move a knight out and back.
ShuffleRequests ==
    { mv(file_G, 1, file_F, 3), mv(file_F, 3, file_G, 1),
      mv(file_G, 8, file_F, 6), mv(file_F, 6, file_G, 8) }

\* From the starting position: the white e-pawn advances to e5 or e6 and
\* the black d-pawn advances two squares beside or behind it.
EnPassantRequests ==
    { mv(file_E, 2, file_E, 4), mv(file_E, 4, file_E, 5), mv(file_E, 5, file_E, 6),
      mv(file_A, 7, file_A, 6), mv(file_A, 6, file_A, 5), mv(file_D, 7, file_D, 5),
      mv(file_E, 5, file_D, 6), mv(file_E, 6, file_D, 7) }

CastleRequests ==
    { mv(file_E, 1, file_G, 1), mv(file_E, 1, file_C, 1), mv(file_E, 1, file_E, 2),
      mv(file_A, 1, file_B, 1), mv(file_E, 8, file_G, 8), mv(file_E, 8, file_C, 8),
      mv(file_H, 8, file_G, 8), mv(file_D, 4, file_D, 5) }

MateRequests ==
    { mv(file_G, 1, file_G, 7), mv(file_G, 1, file_G, 6), mv(file_G, 1, file_A, 1),
      mv(file_G, 1, file_G, 2), mv(file_H, 8, file_H, 7), mv(file_H, 8, file_G, 8),
      mv(file_H, 7, file_H, 8), mv(file_G, 2, file_G, 7), mv(file_F, 7, file_F, 8) }

PromotionRequests ==
    { mv(file_B, 7, file_C, 8), mvp(file_B, 7, file_C, 8, "Queen"),
      mv(file_B, 7, file_B, 8), mvp(file_B, 7, file_B, 8, "Rook"),
      mvp(file_B, 7, file_A, 8, "Knight"), mvp(file_H, 1, file_H, 2, "Bishop"),
      mv(file_G, 8, file_G, 7), mv(file_C, 8, file_C, 1), mv(file_C, 8, file_B, 8) }

\* A run of the model: the board the Game is created on and the requests
\* its caller chooses from.
Scenarios ==
    { [board |-> Board_default, requests |-> TourRequests],
      [board |-> Board_default, requests |-> ShuffleRequests],
      [board |-> Board_default, requests |-> EnPassantRequests],
      [board |-> Castle_board, requests |-> CastleRequests],
      [board |-> Mate_board, requests |-> MateRequests],
      [board |-> Promotion_board, requests |-> PromotionRequests] }

MaxMoves == 9

\* ------------------------------------------------------------------------
\* The Game as a state machine
\* ------------------------------------------------------------------------
VARIABLES board, index, history, repetitions, result, panicked, requests

vars == <<board, index, history, repetitions, result, panicked, requests>>

TheGame ==
    [board |-> board, index |-> index, history |-> history,
     repetitions |-> repetitions]

NoRequest == MoveRequest(NoPos, NoPos, NoPromotion)

NoResult == [op |-> "new", status |-> "None", error |-> "None", info |-> NoInfo,
             request |-> NoRequest]

Init ==
    \E scenario \in Scenarios :
        \E game \in {Game_new(scenario.board)} :
            /\ board = game.board
            /\ index = game.index
            /\ history = game.history
            /\ repetitions = game.repetitions
            /\ result = NoResult
            /\ panicked = FALSE
            /\ requests = scenario.requests

\* Game::attempt_move(request); before is before_move of the Game, which the
\* handler computes first whatever the request.
AttemptMove(request, before) ==
    /\ ~panicked
    /\ index < MaxMoves
    /\ \E r \in {attempt_move_from(TheGame, request, before)} :
           /\ board' = r.game.board
           /\ index' = r.game.index
           /\ history' = r.game.history
           /\ repetitions' = r.game.repetitions
           /\ panicked' = (r.status = "Panic")
           /\ result' = [op |-> "attempt_move", status |-> r.status,
                         error |-> r.error, info |-> r.info, request |-> request,
                         before |-> TheGame]
           /\ UNCHANGED requests

Next ==
    \E before \in {before_move(TheGame)} :
        \E request \in requests : AttemptMove(request, before)

Spec == Init /\ [][Next]_vars

\* ------------------------------------------------------------------------
\* The Game with undo and redo
\* ------------------------------------------------------------------------
\* From the starting position: a double step, its answer and a capture.
OpeningRequests ==
    { mv(file_E, 2, file_E, 4), mv(file_D, 7, file_D, 5), mv(file_E, 4, file_D, 5) }

\* On the castle board: a castle of each side and a rook move.
CastleOrRookRequests ==
    { mv(file_E, 1, file_C, 1), mv(file_E, 8, file_G, 8), mv(file_A, 1, file_B, 1) }

HistoryScenarios ==
    { [board |-> Board_default, requests |-> ShuffleRequests],
      [board |-> Board_default, requests |-> OpeningRequests],
      [board |-> Castle_board, requests |-> CastleOrRookRequests] }

MaxHistory == 2

InitHistory ==
    \E scenario \in HistoryScenarios :
        \E game \in {Game_new(scenario.board)} :
            /\ board = game.board
            /\ index = game.index
            /\ history = game.history
            /\ repetitions = game.repetitions
            /\ result = NoResult
            /\ panicked = FALSE
            /\ requests = scenario.requests

\* A call of Game::previous_move or Game::next_move; r is what it returns
\* and leaves.
Browse(op, r) ==
    /\ ~panicked
    /\ board' = r.game.board
    /\ index' = r.game.index
    /\ history' = r.game.history
    /\ repetitions' = r.game.repetitions
    /\ result' = [op |-> op, status |-> IF r.returned THEN "True" ELSE "False",
                  error |-> "None", info |-> NoInfo, request |-> NoRequest,
                  before |-> TheGame]
    /\ UNCHANGED <<panicked, requests>>

PreviousMove == Browse("previous_move", previous_move(TheGame))

NextMove == Browse("next_move", next_move(TheGame))

NextHistory ==
    \/ (index < MaxHistory /\ Next)
    \/ PreviousMove
    \/ NextMove

SpecHistory == InitHistory /\ [][NextHistory]_vars

\* ------------------------------------------------------------------------
\* The Board as a state machine: add_piece and move_piece called directly
\* ------------------------------------------------------------------------
\* r3k2r/1P1p4/b3P3/8/8/8/8/R3K2R w KQkq - 99 1
Play_board ==
    fen_board(<< <<BR, xx, xx, xx, BK, xx, xx, BR>>,
                 <<xx, WP, xx, BP, xx, xx, xx, xx>>,
                 <<BB, xx, xx, xx, WP, xx, xx, xx>>,
                 <<xx, xx, xx, xx, xx, xx, xx, xx>>,
                 <<xx, xx, xx, xx, xx, xx, xx, xx>>,
                 <<xx, xx, xx, xx, xx, xx, xx, xx>>,
                 <<xx, xx, xx, xx, xx, xx, xx, xx>>,
                 <<WR, xx, xx, xx, WK, xx, xx, WR>> >>,
              "w", <<"K", "Q", "k", "q">>, NoPos, 99, 1)

\* The same position with Black to move.
Play_board_black == [Play_board EXCEPT !.current_turn = "Black"]

PlayRequests ==
    { mv(file_E, 1, file_G, 1), mv(file_E, 1, file_C, 1), mv(file_H, 1, file_G, 1),
      mv(file_B, 7, file_B, 8), mvp(file_B, 7, file_B, 8, "Knight"),
      mvp(file_B, 7, file_A, 8, "Queen"), mv(file_E, 6, file_D, 7),
      mv(file_E, 8, file_G, 8), mv(file_E, 8, file_C, 8), mv(file_H, 8, file_G, 8),
      mv(file_D, 7, file_D, 5), mv(file_D, 7, file_E, 6), mv(file_C, 3, file_C, 4) }

StartRequests ==
    { mv(file_E, 2, file_E, 4), mv(file_D, 7, file_D, 5), mv(file_E, 4, file_D, 5),
      mv(file_D, 5, file_D, 7), mv(file_G, 1, file_F, 3) }

EmptyRequests ==
    { mv(file_D, 5, file_D, 7), mv(file_D, 5, file_A, 8), mv(file_A, 8, file_B, 6) }

BoardScenarios ==
    { [board |-> Board_empty, requests |-> EmptyRequests],
      [board |-> Board_default, requests |-> StartRequests],
      [board |-> Play_board, requests |-> PlayRequests],
      [board |-> Play_board_black, requests |-> PlayRequests],
      [board |-> Mate_board, requests |-> MateRequests] }

\* The squares and pieces add_piece is called with.
AddSquares == {sq(file_D, 5), A8}
AddPieces == {WQ, BN}

MaxCalls == 2

InitBoard ==
    \E scenario \in BoardScenarios :
        /\ board = scenario.board
        /\ index = 0
        /\ history = <<>>
        /\ repetitions = EmptyMap
        /\ result = NoResult
        /\ panicked = FALSE
        /\ requests = scenario.requests

\* board::utils::move_piece(&mut board, request)
MovePiece(request) ==
    /\ ~panicked
    /\ index < MaxCalls
    /\ \E r \in {move_piece(board, request)} :
           /\ board' = r.board
           /\ index' = IF r.status = "Ok" THEN index + 1 ELSE index
           /\ panicked' = (r.status = "Panic")
           /\ result' = [op |-> "move_piece", status |-> r.status, error |-> r.error,
                         info |-> r.info, request |-> request]
           /\ UNCHANGED <<history, repetitions, requests>>

\* Board::add_piece(position, piece)
AddPiece(position, piece) ==
    /\ ~panicked
    /\ index < MaxCalls
    /\ board' = add_piece(board, position, piece)
    /\ index' = index + 1
    /\ result' = [op |-> "add_piece", status |-> "Ok", error |-> "None",
                  info |-> NoInfo, request |-> MoveRequest(position, position, NoPromotion)]
    /\ UNCHANGED <<history, repetitions, panicked, requests>>

NextBoard ==
    \/ \E request \in requests : MovePiece(request)
    \/ \E position \in AddSquares : \E piece \in AddPieces : AddPiece(position, piece)

SpecBoard == InitBoard /\ [][NextBoard]_vars


\* ------------------------------------------------------------------------
\* The Game on the positions of the notation tests (game.rs, mod test)
\* ------------------------------------------------------------------------
EmptyRow == <<xx, xx, xx, xx, xx, xx, xx, xx>>

\* 3r3r/8/8/R7/4Q2Q/8/8/R6Q w - - 0 1
Rooks_board ==
    fen_board(<< <<xx, xx, xx, BR, xx, xx, xx, BR>>,
                 EmptyRow,
                 EmptyRow,
                 <<WR, xx, xx, xx, xx, xx, xx, xx>>,
                 <<xx, xx, xx, xx, WQ, xx, xx, WQ>>,
                 EmptyRow,
                 EmptyRow,
                 <<WR, xx, xx, xx, xx, xx, xx, WQ>> >>,
              "w", <<"-">>, NoPos, 0, 1)

\* 3r3r/8/8/R7/4Q2Q/8/8/R6Q b - - 0 1
Rooks_board_black == [Rooks_board EXCEPT !.current_turn = "Black"]

\* 3k4/8/8/2Q5/8/8/8/R3K2R w KQ - 0 1
Castle_check_board ==
    fen_board(<< <<xx, xx, xx, BK, xx, xx, xx, xx>>,
                 EmptyRow,
                 EmptyRow,
                 <<xx, xx, WQ, xx, xx, xx, xx, xx>>,
                 EmptyRow,
                 EmptyRow,
                 EmptyRow,
                 <<WR, xx, xx, xx, WK, xx, xx, WR>> >>,
              "w", <<"K", "Q">>, NoPos, 0, 1)

\* 3k4/8/8/2Q1Q3/8/8/8/R3K3 w Q - 0 1
Castle_mate_board ==
    fen_board(<< <<xx, xx, xx, BK, xx, xx, xx, xx>>,
                 EmptyRow,
                 EmptyRow,
                 <<xx, xx, WQ, xx, WQ, xx, xx, xx>>,
                 EmptyRow,
                 EmptyRow,
                 EmptyRow,
                 <<WR, xx, xx, xx, WK, xx, xx, xx>> >>,
              "w", <<"Q">>, NoPos, 0, 1)

\* 4k3/8/8/2p5/1P1P4/8/8/4K3 w - - 0 1
Pawns_board ==
    fen_board(<< <<xx, xx, xx, xx, BK, xx, xx, xx>>,
                 EmptyRow,
                 EmptyRow,
                 <<xx, xx, BP, xx, xx, xx, xx, xx>>,
                 <<xx, WP, xx, WP, xx, xx, xx, xx>>,
                 EmptyRow,
                 EmptyRow,
                 <<xx, xx, xx, xx, WK, xx, xx, xx>> >>,
              "w", <<"-">>, NoPos, 0, 1)

RooksRequests ==
    { mv(file_A, 1, file_A, 3), mv(file_A, 5, file_A, 3), mv(file_H, 4, file_E, 1),
      mv(file_E, 4, file_E, 1), mv(file_H, 1, file_E, 1),
      mv(file_D, 8, file_F, 8), mv(file_H, 8, file_F, 8) }

CastleNotationRequests ==
    { mv(file_E, 1, file_C, 1), mv(file_E, 1, file_G, 1), mv(file_E, 1, file_E, 2),
      mv(file_A, 1, file_D, 1), mv(file_H, 1, file_D, 1),
      mv(file_D, 8, file_E, 8), mv(file_D, 8, file_D, 7) }

PawnsRequests ==
    { mv(file_B, 4, file_C, 5), mv(file_D, 4, file_C, 5), mv(file_D, 4, file_D, 5),
      mv(file_B, 4, file_B, 5), mv(file_C, 5, file_B, 4),
      mv(file_C, 5, file_D, 4), mv(file_E, 8, file_E, 7), mv(file_E, 1, file_E, 2) }

\* 4k3/8/8/8/8/5N2/8/1N2K3 w - - 0 1
Knights_board ==
    fen_board(<< <<xx, xx, xx, xx, BK, xx, xx, xx>>,
                 EmptyRow,
                 EmptyRow,
                 EmptyRow,
                 EmptyRow,
                 <<xx, xx, xx, xx, xx, WN, xx, xx>>,
                 EmptyRow,
                 <<xx, WN, xx, xx, WK, xx, xx, xx>> >>,
              "w", <<"-">>, NoPos, 0, 1)

NotationScenarios ==
    { [board |-> Knights_board,
       requests |-> { mv(file_B, 1, file_D, 2), mv(file_F, 3, file_D, 2),
                      mv(file_E, 8, file_E, 7), mv(file_E, 7, file_E, 8) }],
      [board |-> Rooks_board, requests |-> RooksRequests],
      [board |-> Rooks_board_black, requests |-> RooksRequests],
      [board |-> Castle_check_board, requests |-> CastleNotationRequests],
      [board |-> Castle_mate_board, requests |-> CastleNotationRequests],
      [board |-> Pawns_board, requests |-> PawnsRequests],
      [board |-> Promotion_board, requests |-> PromotionRequests],
      [board |-> Mate_board, requests |-> MateRequests] }

InitNotation ==
    \E scenario \in NotationScenarios :
        \E game \in {Game_new(scenario.board)} :
            /\ board = game.board
            /\ index = game.index
            /\ history = game.history
            /\ repetitions = game.repetitions
            /\ result = NoResult
            /\ panicked = FALSE
            /\ requests = scenario.requests

SpecNotation == InitNotation /\ [][Next]_vars

\* ------------------------------------------------------------------------
\* Games around a castle under attack
\* ------------------------------------------------------------------------
\* 3r4/6k1/8/8/8/8/8/R3K2R b KQ - 0 1
Rook_check_board ==
    fen_board(<< <<xx, xx, xx, BR, xx, xx, xx, xx>>,
                 <<xx, xx, xx, xx, xx, xx, BK, xx>>,
                 EmptyRow,
                 EmptyRow,
                 EmptyRow,
                 EmptyRow,
                 EmptyRow,
                 <<WR, xx, xx, xx, WK, xx, xx, WR>> >>,
              "b", <<"K", "Q">>, NoPos, 0, 1)

\* 4k3/8/8/8/8/4p3/8/R3K2R b KQ - 0 1
Pawn_guard_board ==
    fen_board(<< <<xx, xx, xx, xx, BK, xx, xx, xx>>,
                 EmptyRow,
                 EmptyRow,
                 EmptyRow,
                 EmptyRow,
                 <<xx, xx, xx, xx, BP, xx, xx, xx>>,
                 EmptyRow,
                 <<WR, xx, xx, xx, WK, xx, xx, WR>> >>,
              "b", <<"K", "Q">>, NoPos, 0, 1)

\* The black rook gives and lifts a check on the e-file; the black pawn
\* steps to e2 beside the squares the white king would cross.
CastleScenarios ==
    { [board |-> Rook_check_board,
       requests |-> { mv(file_D, 8, file_E, 8), mv(file_E, 8, file_D, 8),
                      mv(file_E, 1, file_G, 1), mv(file_E, 1, file_C, 1),
                      mv(file_E, 1, file_F, 1), mv(file_F, 1, file_E, 1),
                      mv(file_G, 7, file_G, 6), mv(file_G, 6, file_G, 7) }],
      [board |-> Pawn_guard_board,
       requests |-> { mv(file_E, 3, file_E, 2), mv(file_E, 8, file_D, 8),
                      mv(file_D, 8, file_E, 8),
                      mv(file_E, 1, file_G, 1), mv(file_E, 1, file_C, 1),
                      mv(file_A, 1, file_B, 1), mv(file_B, 1, file_A, 1),
                      mv(file_H, 1, file_G, 1) }] }

InitCastle ==
    \E scenario \in CastleScenarios :
        \E game \in {Game_new(scenario.board)} :
            /\ board = game.board
            /\ index = game.index
            /\ history = game.history
            /\ repetitions = game.repetitions
            /\ result = NoResult
            /\ panicked = FALSE
            /\ requests = scenario.requests

SpecCastle == InitCastle /\ [][Next]_vars

\* ------------------------------------------------------------------------
\* The move generators called directly on a board
\* ------------------------------------------------------------------------
\* 4k3/8/8/2pP4/8/8/8/4K3 w - c6 0 1
EnPassant_board ==
    fen_board(<< <<xx, xx, xx, xx, BK, xx, xx, xx>>,
                 EmptyRow,
                 EmptyRow,
                 <<xx, xx, BP, WP, xx, xx, xx, xx>>,
                 EmptyRow,
                 EmptyRow,
                 EmptyRow,
                 <<xx, xx, xx, xx, WK, xx, xx, xx>> >>,
              "w", <<"-">>, sq(file_C, 6), 0, 1)

GeneratorBoards ==
    { Board_empty, Board_default, Play_board, Castle_board, Rooks_board,
      Pawns_board, Promotion_board, EnPassant_board }

\* get_pawn_moves, get_rook_moves, ... called with start and side.
generate(b, piece_type, start, side) ==
    CASE piece_type = "Pawn" -> get_pawn_moves(b, start, side)
      [] piece_type = "Rook" -> get_rook_moves(b, start, side)
      [] piece_type = "Knight" -> get_knight_moves(b, start, side)
      [] piece_type = "Bishop" -> get_bishop_moves(b, start, side)
      [] piece_type = "King" -> get_king_moves(b, start, side)
      [] piece_type = "Queen" -> get_queen_moves(b, start, side)

InitMoves ==
    /\ board \in GeneratorBoards
    /\ index = 0
    /\ history = <<>>
    /\ repetitions = EmptyMap
    /\ result = NoResult
    /\ panicked = FALSE
    /\ requests = {}

\* One call of a generator; the board is only read and nothing is kept
\* between calls, so a behaviour is a single call.
GetMoves(piece_type, start, side) ==
    /\ result = NoResult
    /\ result' = [op |-> "get_moves", status |-> "Ok", error |-> "None",
                  info |-> NoInfo,
                  request |-> MoveRequest(start, start, NoPromotion),
                  piece_type |-> piece_type, side |-> side,
                  moves |-> generate(board, piece_type, start, side)]
    /\ UNCHANGED <<board, index, history, repetitions, panicked, requests>>

NextMoves ==
    \E piece_type \in PieceTypes : \E start \in Squares : \E side \in Sides :
        GetMoves(piece_type, start, side)

SpecMoves == InitMoves /\ [][NextMoves]_vars

\* ------------------------------------------------------------------------
\* Properties
\* ------------------------------------------------------------------------
StartFen == fen_generate(Board_default)

\* The Game was created on the standard starting position.
FromStandardStart == history # <<>> /\ history[1] = StartFen

has_move(moves, start, end) == start \in DOMAIN moves /\ end \in DOMAIN moves[start]

\* start -> end is pseudo-legal for side, executing it on a copy succeeds and
\* leaves the king of side not attacked.
executes_safely(b, side, all_moves, start, end) ==
    /\ has_move(all_moves, start, end)
    /\ Let(move_piece(b, probe_request(start, end, all_moves[start][end])),
           LAMBDA copy : copy.status = "Ok" /\ ~is_in_check(copy.board, side))

\* C1: for either side S, get_all_legal_moves(board, S) holds start -> end
\* exactly when it is among S's pseudo-legal moves (with the same kind) and
\* executing it on a copy succeeds and leaves S's king not attacked; and after
\* a successful attempt_move the side that moved is not in check.
C1_LegalMoves ==
    ~panicked =>
        /\ \A side \in Sides :
            Let(get_all_legal_moves(board, side), LAMBDA legal :
            Let(get_all_moves(board, side), LAMBDA all_moves :
                \A start \in Squares : \A end \in Squares :
                    /\ has_move(legal, start, end)
                        <=> executes_safely(board, side, all_moves, start, end)
                    /\ has_move(legal, start, end)
                        => legal[start][end] = all_moves[start][end]))
        /\ (result.op = "attempt_move" /\ result.status = "Ok")
            => ~is_in_check(board, opponent(board.current_turn))

\* A move was applied and the side to move now has a pseudo-legal move that
\* is not legal.
C1_Witness ==
    /\ ~panicked
    /\ result.op = "attempt_move" /\ result.status = "Ok"
    /\ Let(get_all_legal_moves(board, board.current_turn), LAMBDA legal :
       Let(get_all_moves(board, board.current_turn), LAMBDA all_moves :
           /\ DOMAIN legal # {}
           /\ \E start \in DOMAIN all_moves : \E end \in DOMAIN all_moves[start] :
                ~has_move(legal, start, end)))

\* get_move_state returns on b: no probe of a castle candidate panics.
classifier_returns(b) == ~legal_moves_panic(b, b.current_turn)

has_legal_move(b) == DOMAIN get_all_legal_moves(b, b.current_turn) # {}

\* C2: with no legal move get_move_state is Checkmate when the king of the
\* side to move is attacked and Stalemate otherwise, whatever the clock; with
\* a legal move and a clock below 100 it is Check when the king is attacked
\* and CanMove otherwise.
C2_Classification ==
    (~panicked /\ classifier_returns(board)) =>
        Let(get_move_state(board), LAMBDA state :
        Let(is_in_check(board, board.current_turn), LAMBDA attacked :
            IF ~has_legal_move(board)
            THEN state = (IF attacked THEN "Checkmate" ELSE "Stalemate")
            ELSE board.half_moves < 100
                    => /\ state = (IF attacked THEN "Check" ELSE "CanMove")
                       /\ state \notin {"Checkmate", "Stalemate"}))

\* move_piece has just mated the side to move.
C2_Witness ==
    /\ result.op = "move_piece" /\ result.status = "Ok"
    /\ get_move_state(board) = "Checkmate"
    /\ is_in_check(board, board.current_turn)

occupied(b) == {p \in Squares : b.positions[p] # EMPTY}

\* C3: the side-sets are disjoint, their union is the set of occupied
\* squares, and a square is in the White (Black) set iff the piece stored at
\* it is White (Black).
C3_SideSets ==
    /\ board.white_pieces \cap board.black_pieces = {}
    /\ board.white_pieces \cup board.black_pieces = occupied(board)
    /\ \A p \in Squares :
        /\ p \in board.white_pieces
            <=> (board.positions[p] # EMPTY /\ board.positions[p].side = "White")
        /\ p \in board.black_pieces
            <=> (board.positions[p] # EMPTY /\ board.positions[p].side = "Black")

\* move_piece has just executed a capture.
C3_Witness ==
    /\ result.op = "move_piece" /\ result.status = "Ok"
    /\ result.info.is_capture
    /\ Cardinality(occupied(board)) >= 2

\* The castle candidates of the side to move: the right is set and the
\* squares between king and rook are empty.
castle_candidates(b) ==
    Let(get_all_moves(b, b.current_turn), LAMBDA all_moves :
        {<<pair[1], pair[2], all_moves[pair[1]][pair[2]]>> :
            pair \in {q \in (DOMAIN all_moves) \X Squares :
                        /\ has_move(all_moves, q[1], q[2])
                        /\ all_moves[q[1]][q[2]].kind
                                \in {"ShortCastle", "LongCastle"}}})

\* The king's transit square is in the opponent's target set before the move.
transit_attacked(b, candidate) ==
    (IF candidate[2] > candidate[1] THEN candidate[1] + 1 ELSE candidate[1] - 1)
        \in get_all_target_positions(b, opponent(b.current_turn))

\* The move executes and the king's destination is in the opponent's target
\* set after it.
destination_attacked(b, candidate) ==
    Let(move_piece(b, MoveRequest(candidate[1], candidate[2], NoPromotion)),
        LAMBDA moved :
        /\ moved.status = "Ok"
        /\ candidate[2] \in get_all_target_positions(moved.board,
                                                      opponent(b.current_turn)))

castle_is_legal(b, candidate) ==
    has_move(get_all_legal_moves(b, b.current_turn), candidate[1], candidate[2])

castle_status(b, candidate) ==
    move_piece(b, MoveRequest(candidate[1], candidate[2], NoPromotion)).status

\* C4 as stated: a castle candidate whose transit square is attacked before
\* the move, or whose destination is attacked after it, is absent from
\* get_all_legal_moves and move_piece returns an error for it.
C4_AsStated ==
    (~panicked /\ classifier_returns(board)) =>
        \A candidate \in castle_candidates(board) :
            (transit_attacked(board, candidate)
                \/ destination_attacked(board, candidate))
            => /\ ~castle_is_legal(board, candidate)
               /\ castle_status(board, candidate) = "Err"

\* C4 amended: such a candidate is absent from get_all_legal_moves; move_piece
\* returns an error for it when the transit square is attacked, and executes
\* it when only the destination is attacked.
C4_CastleRejected ==
    (~panicked /\ classifier_returns(board)) =>
        \A candidate \in castle_candidates(board) :
            /\ transit_attacked(board, candidate)
                => /\ ~castle_is_legal(board, candidate)
                   /\ castle_status(board, candidate) = "Err"
            /\ destination_attacked(board, candidate)
                => /\ ~castle_is_legal(board, candidate)
                   /\ castle_status(board, candidate) = "Ok"

\* move_piece has just refused a castle through an attacked transit square,
\* and the other castle of the same side is a candidate too.
C4_Witness ==
    /\ result.op = "move_piece" /\ result.status = "Err"
    /\ result.error = "ThroughCheck"
    /\ \E candidate \in castle_candidates(board) :
        /\ candidate[1] = result.request.start /\ candidate[2] = result.request.end
        /\ transit_attacked(board, candidate)
    /\ Cardinality(castle_candidates(board)) = 2

pawns_of(b, side) == {p \in Squares : get_piece(b, p) = Piece("Pawn", side)}

\* The enemy pawn that advanced two squares on the preceding move (it stands
\* just beyond the en-passant target), or NoPos.
just_advanced(b) ==
    IF b.en_passant_target = NoPos THEN NoPos
    ELSE from_offset(b.en_passant_target, 0,
                     IF b.current_turn = "White" THEN -1 ELSE 1)

stands_beside(p, q) ==
    /\ q # NoPos
    /\ rank(p) = rank(q)
    /\ (file(p) = file(q) + 1 \/ file(p) = file(q) - 1)

\* C5: from the standard start, a pawn of the side to move is offered an
\* EnPassant move exactly when the enemy pawn that just advanced two squares
\* stands beside it; the move lands on the square that pawn passed over, its
\* capture square is the square of that pawn, and executing it leaves the
\* opponent with one pawn fewer.
C5_EnPassant ==
    (FromStandardStart /\ ~panicked) =>
        \A p \in pawns_of(board, board.current_turn) :
            Let(get_pawn_moves(board, p, board.current_turn), LAMBDA moves :
                /\ (\E end \in DOMAIN moves : moves[end].kind = "EnPassant")
                    <=> stands_beside(p, just_advanced(board))
                /\ \A end \in DOMAIN moves :
                    moves[end].kind = "EnPassant" =>
                        /\ end = board.en_passant_target
                        /\ moves[end].arg = just_advanced(board)
                        /\ Let(move_piece(board, MoveRequest(p, end, NoPromotion)),
                               LAMBDA moved :
                               /\ moved.status = "Ok"
                               /\ Cardinality(pawns_of(moved.board,
                                        opponent(board.current_turn)))
                                    = Cardinality(pawns_of(board,
                                        opponent(board.current_turn))) - 1))

\* C6: with a half-move clock of 100 or more and a legal move, get_move_state
\* is Stalemate.
C6_FiftyMoves ==
    (~panicked /\ classifier_returns(board)
        /\ board.half_moves >= 100 /\ has_legal_move(board))
    => get_move_state(board) = "Stalemate"

\* The position keys of the boards of a history, oldest first.
position_keys(h) ==
    [i \in 1..Len(h) |-> get_repetition_state(fen_parse(h[i]))]

\* Some position of the history has occurred three times.
occurred_thrice(h) ==
    Let(position_keys(h), LAMBDA keys :
        \E i \in DOMAIN keys :
            Cardinality({j \in DOMAIN keys : keys[j] = keys[i]}) >= 3)

\* C7: once a position has occurred three times Game::get_move_state is
\* Stalemate, and after any further attempt_move a position has still
\* occurred three times and the state is still Stalemate.
C7_Repetition ==
    (~panicked /\ occurred_thrice(history)) =>
        /\ Game_get_move_state(TheGame) = "Stalemate"
        /\ \A request \in requests :
            Let(attempt_move(TheGame, request), LAMBDA attempt :
                /\ attempt.status # "Panic"
                /\ occurred_thrice(attempt.game.history)
                /\ Game_get_move_state(attempt.game) = "Stalemate")

\* A position has occurred three times on a board the board-local classifier
\* calls CanMove, and a further attempt_move has been refused.
C7_Witness ==
    /\ occurred_thrice(history)
    /\ get_move_state(board) = "CanMove"
    /\ Game_get_move_state(TheGame) = "Stalemate"
    /\ result.error = "GameOver"

\* C8: from the standard start nothing panics.
C8_NoPanic == FromStandardStart => ~panicked

\* A move_piece that returns an error leaves the board as it was.
move_piece_error_keeps_board ==
    ~panicked =>
        \A request \in requests :
            Let(move_piece(board, request), LAMBDA moved :
                moved.status = "Err" => moved.board = board)

\* C9: whenever move_piece returns an error the Board is as before the call,
\* and whenever attempt_move returns an error the Game's board, history,
\* index and repetition table are as before the call.
C9_NoPartialMove ==
    /\ []move_piece_error_keeps_board
    /\ [][result'.status = "Err"
            => UNCHANGED <<board, history, index, repetitions>>]_vars

\* attempt_move has just returned the error of move_piece (a promotion
\* without a choice), and on this board move_piece also refuses requests for
\* an empty origin and for a piece of the other side.
C9_Witness ==
    /\ result.op = "attempt_move" /\ result.status = "Err"
    /\ result.error = "MissingPromotion"
    /\ \E request \in requests : move_piece(board, request).error = "NoPiece"
    /\ \E request \in requests :
            move_piece(board, request).error = "NotCurrentPlayer"

game_over_refuses ==
    (~panicked /\ Game_get_move_state(TheGame) \in {"Checkmate", "Stalemate"}) =>
        \A request \in requests :
            Let(attempt_move(TheGame, request), LAMBDA attempt :
                /\ attempt.status = "Err" /\ attempt.error = "GameOver"
                /\ attempt.game = TheGame)

\* C10: while Game::get_move_state is Checkmate or Stalemate every
\* attempt_move returns GameOver; a move is applied only from CanMove or
\* Check.
C10_GameOver ==
    /\ []game_over_refuses
    /\ [][result'.status = "Ok"
            => Game_get_move_state(TheGame) \in {"CanMove", "Check"}]_vars

\* A request that resolves to a move on the board has just been refused with
\* GameOver, the board-local state being neither Checkmate nor a position
\* without legal moves.
C10_Witness ==
    /\ result.op = "attempt_move" /\ result.error = "GameOver"
    /\ get_move(board, result.request).ok
    /\ has_legal_move(board)

\* The side that made the move that led to b.
mover(b) == opponent(b.current_turn)

home_rank(side) == IF side = "White" THEN rank_ONE ELSE rank_EIGHT

\* The last operation executed a castle.
castle_executed ==
    /\ result.status = "Ok"
    /\ result.info.move_kind \in {ShortCastle, LongCastle}

\* The squares of a castled wing hold what a castle leaves: the king on
\* king_file, a rook of side on rook_file, nothing on the king's home square
\* and on the corner.
castled(b, side, king_file, rook_file, corner_file) ==
    /\ get_piece(b, from_file_and_rank(king_file, home_rank(side)))
            = Piece("King", side)
    /\ get_piece(b, from_file_and_rank(rook_file, home_rank(side)))
            = Piece("Rook", side)
    /\ get_piece(b, from_file_and_rank(file_E, home_rank(side))) = EMPTY
    /\ get_piece(b, from_file_and_rank(corner_file, home_rank(side))) = EMPTY

\* C11: from the standard start, after an executed ShortCastle the mover's
\* king stands on the g-file and a rook of the mover's side on the f-file of
\* the home rank, after a LongCastle on the c-file and the d-file, and the
\* king's home square and the corner are empty.
C11_CastleRook ==
    (FromStandardStart /\ castle_executed) =>
        IF result.info.move_kind = ShortCastle
        THEN castled(board, mover(board), file_G, file_F, file_H)
        ELSE castled(board, mover(board), file_C, file_D, file_A)

Wings == {"short", "long"}

\* The castling right of side on wing.
right_of(rights, side, wing) ==
    CASE side = "White" /\ wing = "short" -> rights.white_short_castle_rights
      [] side = "White" /\ wing = "long" -> rights.white_long_castle_rights
      [] side = "Black" /\ wing = "short" -> rights.black_short_castle_rights
      [] side = "Black" /\ wing = "long" -> rights.black_long_castle_rights

corner_of(side, wing) ==
    from_file_and_rank(IF wing = "short" THEN file_H ELSE file_A, home_rank(side))

\* A move of piece from start revokes the right of side on wing.
revoked_by(piece, start, side, wing) ==
    /\ piece.side = side
    /\ \/ piece.piece_type = "King"
       \/ piece.piece_type = "Rook" /\ start = corner_of(side, wing)

\* Every move move_piece executes on the board leaves a right set iff it was
\* set and the move does not revoke it.
rights_after_move ==
    ~panicked =>
        \A request \in requests :
            Let(move_piece(board, request), LAMBDA moved :
                moved.status = "Ok" =>
                    \A side \in Sides : \A wing \in Wings :
                        right_of(moved.board.castle_rights, side, wing)
                        <=> /\ right_of(board.castle_rights, side, wing)
                            /\ ~revoked_by(get_piece(board, request.start),
                                           request.start, side, wing))

\* C12: after an executed move of a piece P of side S from s a castling right
\* is set iff it was set before and the move did not revoke it (a king
\* revokes both rights of S, a rook leaving S's a-file corner the long right,
\* a rook leaving S's h-file corner the short right); no step turns a right
\* from false to true.
C12_CastlingRights ==
    /\ []rights_after_move
    /\ [][\A side \in Sides : \A wing \in Wings :
            right_of(board'.castle_rights, side, wing)
                => right_of(board.castle_rights, side, wing)]_vars

\* A rook has just left h1: White has lost the short right and kept the long
\* one, and Black has both.
C12_Witness ==
    /\ result.op = "move_piece" /\ result.status = "Ok"
    /\ result.info.piece_type = "Rook" /\ result.request.start = H1
    /\ board.castle_rights = CastleRights(FALSE, TRUE, TRUE, TRUE)


\* The last operation executed a move.
move_executed ==
    /\ result.op \in {"move_piece", "attempt_move"}
    /\ result.status = "Ok"

\* The executed move took a pawn two ranks along its file.
pawn_double_step(info) ==
    /\ info.piece_type = "Pawn"
    /\ file(info.end) = file(info.start)
    /\ (rank(info.end) = rank(info.start) + 2 \/ rank(info.end) = rank(info.start) - 2)

\* The square between start and end of a double step.
passed_over(info) ==
    from_file_and_rank(file(info.start), (rank(info.start) + rank(info.end)) \div 2)

\* C13: after every executed move the en-passant target is set iff the move
\* was a pawn DoubleMove, and then it is the square the pawn passed over;
\* any other move, one made right after a DoubleMove included, leaves no
\* target.
C13_EnPassantTarget ==
    move_executed =>
        /\ result.info.move_kind.kind = "DoubleMove" <=> pawn_double_step(result.info)
        /\ board.en_passant_target # NoPos <=> pawn_double_step(result.info)
        /\ pawn_double_step(result.info)
            => board.en_passant_target = passed_over(result.info)

\* A move that is not a DoubleMove has just been executed on a board whose
\* en-passant target was set by the move before it.
C13_Witness ==
    /\ result.op = "attempt_move" /\ result.status = "Ok"
    /\ ~pawn_double_step(result.info)
    /\ index >= 2
    /\ history[index].en_passant_target # NoPos
    /\ board.en_passant_target = NoPos


\* The move kinds that take a piece.
capturing(move_kind) ==
    move_kind.kind \in {"Capture", "EnPassant"} \/ move_kind = Promotion(TRUE)

\* The clock an executed move of piece_type with move_kind leaves.
clock_after(half_moves, piece_type, move_kind) ==
    IF piece_type = "Pawn" \/ capturing(move_kind) THEN 0 ELSE half_moves + 1

\* C14: after every executed move the half-move clock is 0 if the moved piece
\* was a pawn or the move was a Capture, an EnPassant or a Promotion with
\* capture, and the previous clock plus one otherwise; a move that takes a
\* piece off the board always leaves 0.
C14_HalfMoveClock ==
    ~panicked =>
        /\ \A request \in requests :
            Let(move_piece(board, request), LAMBDA moved :
                moved.status = "Ok" =>
                    /\ moved.board.half_moves
                        = clock_after(board.half_moves,
                                      get_piece(board, request.start).piece_type,
                                      moved.info.move_kind)
                    /\ Cardinality(occupied(moved.board)) < Cardinality(occupied(board))
                        => moved.board.half_moves = 0)
        /\ (result.op = "attempt_move" /\ result.status = "Ok")
            => board.half_moves
                = clock_after(history[index].half_moves, result.info.piece_type,
                              result.info.move_kind)

\* A knight has just captured and reset a clock that was running.
C14_Witness ==
    /\ result.op = "attempt_move" /\ result.status = "Ok"
    /\ result.info.piece_type = "Knight" /\ result.info.move_kind = Capture
    /\ history[index].half_moves > 0
    /\ board.half_moves = 0


\* The generator resolves start -> end to a Promotion for the side to move.
resolves_to_promotion(b, start, end) ==
    /\ piece_moves_ok(b, b.current_turn, start)
    /\ Let(get_piece_moves(b, b.current_turn, start), LAMBDA moves :
           end \in DOMAIN moves /\ moves[end].kind = "Promotion")

\* What a promotion to promotion from start to end leaves on the board.
promoted(before, after, start, end, promotion) ==
    /\ get_piece(after, end) = Piece(promotion, before.current_turn)
    /\ get_piece(after, start) = EMPTY
    /\ \A p \in Squares :
        rank(p) = rank(end) => get_piece(after, p).piece_type # "Pawn"

\* C15: a request that resolves to a Promotion is refused with the
\* missing-promotion error when it carries no promotion kind, and executed
\* when it carries one: the destination then holds a piece of the requested
\* kind and of the mover's side, the origin is empty and no pawn stands on
\* the promotion rank.
C15_Promotion ==
    ~panicked =>
        \A request \in requests :
            resolves_to_promotion(board, request.start, request.end) =>
                /\ Let(move_piece(board, MoveRequest(request.start, request.end,
                                                     NoPromotion)),
                       LAMBDA moved :
                       moved.status = "Err" /\ moved.error = "MissingPromotion")
                /\ \A promotion \in PromotionTypes :
                    Let(move_piece(board, MoveRequest(request.start, request.end,
                                                      promotion)),
                        LAMBDA moved :
                        /\ moved.status = "Ok"
                        /\ promoted(board, moved.board, request.start,
                                    request.end, promotion))

\* move_piece has just promoted a pawn to a knight.
C15_Witness ==
    /\ result.op = "move_piece" /\ result.status = "Ok"
    /\ result.info.move_kind.kind = "Promotion"
    /\ result.info.piece_type = "Pawn"
    /\ get_piece(board, result.request.end) = WN
    /\ get_piece(board, result.request.start) = EMPTY


\* The moves of a move table as (start, end) pairs.
move_pairs(moves) ==
    {pair \in (DOMAIN moves) \X Squares : pair[2] \in DOMAIN moves[pair[1]]}

\* The moves of a move table made by pieces of piece_type on b.
moves_of(b, moves, piece_type) ==
    {pair \in move_pairs(moves) : get_piece(b, pair[1]).piece_type = piece_type}

\* C16: on the standard starting position White has exactly 20 legal moves,
\* 16 of pawns and 4 of knights, and is_in_check(White) is false.
C16_StartingMoves ==
    board = Board_default =>
        /\ Let(get_all_legal_moves(board, "White"), LAMBDA legal :
               /\ Cardinality(move_pairs(legal)) = 20
               /\ Cardinality(moves_of(board, legal, "Pawn")) = 16
               /\ Cardinality(moves_of(board, legal, "Knight")) = 4)
        /\ ~is_in_check(board, "White")

\* The board is the standard starting position, White to move, and the
\* legality filter has moves to report.
C16_Witness ==
    /\ board = Board_default
    /\ board.current_turn = "White"
    /\ has_legal_move(board)


\* attempt_move has just executed a move.
attempt_executed == result.op = "attempt_move" /\ result.status = "Ok"

\* The board the last executed attempt_move was made on.
board_before == fen_parse(history[index])

\* The text attempt_move's caller gets from the MoveInfo.
notation == to_notation(result.info)

\* The other pieces of the kind and side of the piece on start that can
\* legally move to end.
others_reaching(b, start, end) ==
    Let(get_all_legal_moves(b, b.current_turn), LAMBDA legal :
        {p \in Squares \ {start} :
            get_piece(b, p) = get_piece(b, start) /\ has_move(legal, p, end)})

letter_of(piece_type) ==
    CASE piece_type = "Knight" -> "N"
      [] piece_type = "Bishop" -> "B"
      [] piece_type = "Rook" -> "R"
      [] piece_type = "Queen" -> "Q"
      [] piece_type = "King" -> "K"

file_letter(position) == FileChars[file(position) + 1]
rank_digit(position) == RankChars[rank(position) + 1]
square_name(position) == <<file_letter(position), rank_digit(position)>>

is_castle(info) == info.move_kind \in {ShortCastle, LongCastle}

starts_with(text, start) ==
    Len(text) >= Len(start) /\ SubSeq(text, 1, Len(start)) = start

\* C17: in the MoveInfo of an executed attempt_move file_disambiguation is
\* true iff another piece of the same kind and side on the rank of the origin
\* can legally move to the destination, rank_disambiguation iff another such
\* piece on the file of the origin can; the notation of a piece move is the
\* piece letter, the origin file if file_disambiguation, the origin rank if
\* rank_disambiguation, 'x' if it captures, then the destination.
C17_Disambiguation ==
    attempt_executed =>
        Let(others_reaching(board_before, result.info.start, result.info.end),
            LAMBDA others :
            /\ result.info.file_disambiguation
                <=> \E p \in others : rank(p) = rank(result.info.start)
            /\ result.info.rank_disambiguation
                <=> \E p \in others : file(p) = file(result.info.start)
            /\ (result.info.piece_type # "Pawn" /\ ~is_castle(result.info)) =>
                starts_with(notation,
                    <<letter_of(result.info.piece_type)>>
                    \o (IF \E p \in others : rank(p) = rank(result.info.start)
                        THEN <<file_letter(result.info.start)>> ELSE <<>>)
                    \o (IF \E p \in others : file(p) = file(result.info.start)
                        THEN <<rank_digit(result.info.start)>> ELSE <<>>)
                    \o (IF result.info.is_capture THEN <<"x">> ELSE <<>>)
                    \o square_name(result.info.end)))

\* A rook has just moved along the back rank to a square the other rook of
\* that rank could reach too: "Rdf8".
C17_Witness ==
    /\ attempt_executed
    /\ result.info.file_disambiguation /\ ~result.info.rank_disambiguation
    /\ notation = <<"R", "d", "f", "8">>


none_in(text, characters) == \A i \in 1..Len(text) : text[i] \notin characters

ends_with(text, character) == text # <<>> /\ text[Len(text)] = character

\* C18: the notation of every move attempt_move executes, a castle included,
\* ends with '+' exactly when get_move_state of the board after the move is
\* Check, with '#' exactly when it is Checkmate; the mark is the last
\* character only, so the notation never carries both.
C18_CheckSuffix ==
    attempt_executed =>
        Let(get_move_state(board), LAMBDA state :
            /\ ends_with(notation, "+") <=> state = "Check"
            /\ ends_with(notation, "#") <=> state = "Checkmate"
            /\ none_in(SubSeq(notation, 1, Len(notation) - 1), {"+", "#"}))

\* A long castle has just mated: "O-O-O#".
C18_Witness ==
    /\ attempt_executed
    /\ result.info.move_kind = LongCastle
    /\ get_move_state(board) = "Checkmate"
    /\ notation = <<"O", "-", "O", "-", "O", "#">>


castle_text(move_kind) ==
    IF move_kind = ShortCastle THEN <<"O", "-", "O">>
    ELSE <<"O", "-", "O", "-", "O">>

\* C19 as stated: the notation of a ShortCastle is exactly "O-O" and of a
\* LongCastle exactly "O-O-O", with no further components.
C19_AsStated ==
    (attempt_executed /\ is_castle(result.info))
        => notation = castle_text(result.info.move_kind)

\* C19 amended: the notation of a ShortCastle is "O-O" and of a LongCastle
\* "O-O-O", followed only by '+' when the MoveInfo's state is Check or '#'
\* when it is Checkmate; it is exactly "O-O" / "O-O-O" when the state is
\* neither.
C19_CastleNotation ==
    (attempt_executed /\ is_castle(result.info)) =>
        notation = castle_text(result.info.move_kind)
                   \o (CASE result.info.move_state = "Check" -> <<"+">>
                         [] result.info.move_state = "Checkmate" -> <<"#">>
                         [] OTHER -> <<>>)

\* A long castle has just given check: "O-O-O+".
C19_Witness ==
    /\ attempt_executed
    /\ result.info.move_kind = LongCastle
    /\ result.info.move_state = "Check"
    /\ notation = <<"O", "-", "O", "-", "O", "+">>


\* The check mark of the position after the move.
mark_of(state) ==
    CASE state = "Check" -> <<"+">>
      [] state = "Checkmate" -> <<"#">>
      [] OTHER -> <<>>

\* C20: the notation of a pawn capture (plain, en passant or with promotion)
\* is the origin file letter once, 'x', the destination square, "=" and the
\* piece letter if the move promotes, then the check mark; the notation of a
\* pawn move that does not capture is the same without the file letter and
\* the 'x'.
C20_PawnNotation ==
    (attempt_executed /\ result.info.piece_type = "Pawn") =>
        notation
        = (IF capturing(result.info.move_kind)
           THEN <<file_letter(result.info.start), "x">> ELSE <<>>)
          \o square_name(result.info.end)
          \o (IF result.info.move_kind.kind = "Promotion"
              THEN <<"=", letter_of(get_piece(board, result.info.end).piece_type)>>
              ELSE <<>>)
          \o mark_of(get_move_state(board))


has_character(text, character) == \E i \in 1..Len(text) : text[i] = character

\* C21: the notation of an executed move holds "=" and a piece letter iff the
\* move's kind is Promotion; a move that is not a promotion leaves the moved
\* piece's kind as it was, whatever promotion kind the request carries, and
\* its notation holds no "=".
C21_PromotionSuffix ==
    attempt_executed =>
        /\ has_character(notation, "=") <=> result.info.move_kind.kind = "Promotion"
        /\ result.info.move_kind.kind # "Promotion"
            => /\ get_piece(board, result.info.end).piece_type
                    = result.info.piece_type
               /\ ~has_character(notation, "=")


\* The reference move sets of the pieces other than the pawn.
KnightJumps ==
    {d \in (-2..2) \X (-2..2) : d[1] * d[1] + d[2] * d[2] = 5}
KingSteps == ((-1..1) \X (-1..1)) \ {<<0, 0>>}
RookDirections == {d \in KingSteps : d[1] = 0 \/ d[2] = 0}
BishopDirections == {d \in KingSteps : d[1] # 0 /\ d[2] # 0}

holds_own(b, position, side) ==
    get_piece(b, position) # EMPTY /\ get_piece(b, position).side = side

holds_enemy(b, position, side) ==
    get_piece(b, position) # EMPTY /\ get_piece(b, position).side # side

\* The on-board squares at the fixed offsets that hold no piece of side.
leaper_reference(b, start, side, jumps) ==
    {from_offset(start, d[1], d[2]) :
        d \in {e \in jumps :
                /\ from_offset(start, e[1], e[2]) # NoPos
                /\ ~holds_own(b, from_offset(start, e[1], e[2]), side)}}

\* The square k steps from start in direction d is on the board and every
\* square before it is empty.
reached_by_ray(b, start, d, k) ==
    /\ from_offset(start, k * d[1], k * d[2]) # NoPos
    /\ \A j \in 1..(k - 1) :
        get_piece(b, from_offset(start, j * d[1], j * d[2])) = EMPTY

\* The squares along the directions up to and including the first occupied
\* square, those holding a piece of side left out.
slider_reference(b, start, side, directions) ==
    {from_offset(start, x[2] * x[1][1], x[2] * x[1][2]) :
        x \in {y \in directions \X (1..7) :
                /\ reached_by_ray(b, start, y[1], y[2])
                /\ ~holds_own(b, from_offset(start, y[2] * y[1][1],
                                             y[2] * y[1][2]), side)}}

\* moves has exactly the destinations of reference, each tagged Capture when
\* it holds an enemy piece and Move when it is empty.
is_reference_map(b, side, moves, reference) ==
    /\ DOMAIN moves = reference
    /\ \A q \in DOMAIN moves :
        /\ moves[q] = Capture <=> holds_enemy(b, q, side)
        /\ moves[q] = Move <=> get_piece(b, q) = EMPTY
        /\ moves[q] \in {Capture, Move}

\* The moves of a king's map that are not castles.
regular_moves(moves) ==
    [q \in {p \in DOMAIN moves : moves[p] \notin {ShortCastle, LongCastle}}
        |-> moves[q]]

castle_destinations(moves) ==
    {p \in DOMAIN moves : moves[p] \in {ShortCastle, LongCastle}}

\* The reference set of piece_type on start.
piece_reference(b, piece_type, start, side) ==
    CASE piece_type = "Knight" -> leaper_reference(b, start, side, KnightJumps)
      [] piece_type = "King" -> leaper_reference(b, start, side, KingSteps)
      [] piece_type = "Rook" -> slider_reference(b, start, side, RookDirections)
      [] piece_type = "Bishop" -> slider_reference(b, start, side, BishopDirections)
      [] piece_type = "Queen" -> slider_reference(b, start, side, KingSteps)

\* A generator has just been called for piece_type.
generated(piece_types) ==
    result.op = "get_moves" /\ result.piece_type \in piece_types

\* C22: for a knight, bishop, rook, queen or king of either side on any
\* square the generated map is the reference set (castles aside for the
\* king), tagged Capture on enemy pieces and Move on empty squares; no square
\* holding a piece of the mover's side and no square behind the first
\* occupied square of a ray is in it.
C22_PieceMoves ==
    generated(PieceTypes \ {"Pawn"}) =>
        is_reference_map(board, result.side, regular_moves(result.moves),
                         piece_reference(board, result.piece_type,
                                         result.request.start, result.side)
                            \ castle_destinations(result.moves))

\* get_queen_moves has just been called for White on d5 of a board where the
\* queen can capture on d7 and is stopped by White's pawn on e6.
C22_Witness ==
    /\ generated({"Queen"})
    /\ result.side = "White" /\ result.request.start = sq(file_D, 5)
    /\ get_piece(board, sq(file_D, 7)) = BP
    /\ get_piece(board, sq(file_E, 6)) = WP
    /\ result.moves[sq(file_D, 7)] = Capture
    /\ sq(file_E, 6) \notin DOMAIN result.moves
    /\ sq(file_D, 8) \notin DOMAIN result.moves

\* Pawn reference: direction of travel, starting rank and far rank of side.
pawn_forward(side) == IF side = "White" THEN 1 ELSE -1
pawn_start_rank(side) == IF side = "White" THEN rank_TWO ELSE rank_SEVEN
pawn_far_rank(side) == IF side = "White" THEN rank_EIGHT ELSE rank_ONE

is_empty_square(b, position) == position # NoPos /\ get_piece(b, position) = EMPTY

\* <<destination, kind>> of the single step, of the double step and of the
\* diagonal captures of a pawn of side on start.
pawn_single_reference(b, start, side) ==
    {<<p, IF rank(p) = pawn_far_rank(side) THEN Promotion(FALSE) ELSE Move>> :
        p \in {q \in {from_offset(start, 0, pawn_forward(side))} :
                  is_empty_square(b, q)}}

pawn_double_reference(b, start, side) ==
    {<<from_offset(start, 0, 2 * pawn_forward(side)), DoubleMove(p)>> :
        p \in {q \in {from_offset(start, 0, pawn_forward(side))} :
                  /\ rank(start) = pawn_start_rank(side)
                  /\ is_empty_square(b, q)
                  /\ is_empty_square(b, from_offset(start, 0, 2 * pawn_forward(side)))}}

pawn_capture_reference(b, start, side) ==
    {<<p, IF rank(p) = pawn_far_rank(side) THEN Promotion(TRUE) ELSE Capture>> :
        p \in {q \in {from_offset(start, df, pawn_forward(side)) : df \in {-1, 1}} :
                  q # NoPos /\ holds_enemy(b, q, side)}}

\* The entries of a generated map other than en passant captures.
non_en_passant(moves) ==
    {<<p, moves[p]>> : p \in {q \in DOMAIN moves : moves[q].kind # "EnPassant"}}

\* C23: for a pawn of either side on any square the generated entries other
\* than en passant are exactly the single step onto an empty square
\* (Promotion(false) on the far rank, else Move), the double step from the
\* starting rank over two empty squares (DoubleMove of the square passed),
\* and the forward diagonals holding an enemy piece (Promotion(true) on the
\* far rank, else Capture).
C23_PawnMoves ==
    generated({"Pawn"}) =>
        non_en_passant(result.moves) =
            pawn_single_reference(board, result.request.start, result.side)
            \cup pawn_double_reference(board, result.request.start, result.side)
            \cup pawn_capture_reference(board, result.request.start, result.side)

\* get_pawn_moves has just been called for White on b7 of the promotion
\* board: b8 is empty, a8 and c8 hold black pieces.
C23_Witness ==
    /\ generated({"Pawn"})
    /\ board = Promotion_board
    /\ result.side = "White" /\ result.request.start = sq(file_B, 7)
    /\ result.moves = (sq(file_B, 8) :> Promotion(FALSE))
                       @@ (sq(file_A, 8) :> Promotion(TRUE))
                       @@ (sq(file_C, 8) :> Promotion(TRUE))

\* The last operation was a successful attempt_move.
attempt_succeeded == result.op = "attempt_move" /\ result.status = "Ok"

\* The entries of a history up to and including the one at index.
up_to(entries, at) == SubSeq(entries, 1, at + 1)

same_position(b1, b2) ==
    /\ b1.positions = b2.positions
    /\ b1.current_turn = b2.current_turn
    /\ b1.castle_rights = b2.castle_rights
    /\ b1.en_passant_target = b2.en_passant_target
    /\ b1.half_moves = b2.half_moves
    /\ b1.full_moves = b2.full_moves

\* The last operation was op and returned the given value.
browsed(op, returned) == result.op = op /\ result.status = returned

\* previous_move and then next_move applied to the Game of this state.
undone == previous_move(TheGame)
redone == next_move(undone.game)

legal_castles ==
    Let(get_all_legal_moves(board, board.current_turn), LAMBDA legal :
        {legal[x[1]][x[2]].kind :
            x \in {y \in (DOMAIN legal) \X Squares :
                      /\ y[2] \in DOMAIN legal[y[1]]
                      /\ legal[y[1]][y[2]].kind \in {"ShortCastle", "LongCastle"}}})

\* C26: a side to move whose king is attacked has no ShortCastle and no
\* LongCastle among its legal moves.
C26_NoCastleOutOfCheck ==
    (~panicked /\ is_in_check(board, board.current_turn)) => legal_castles = {}

\* The squares from which a pawn of the opponent of side attacks position.
pawn_guards(position, side) ==
    {from_offset(position, df, pawn_forward(side)) : df \in {-1, 1}} \ {NoPos}

\* An enemy pawn attacks the square the side to move crosses in the castle.
transit_guarded_by_pawn(move_kind) ==
    \E p \in pawn_guards(transit_square(board.current_turn, move_kind),
                         board.current_turn) :
        get_piece(board, p) = Piece("Pawn", opponent(board.current_turn))

\* C27: the side to move has no legal castle whose transit square is
\* attacked diagonally by an enemy pawn.
C27_PawnBarsCastle ==
    ~panicked =>
        /\ transit_guarded_by_pawn(ShortCastle) => "ShortCastle" \notin legal_castles
        /\ transit_guarded_by_pawn(LongCastle) => "LongCastle" \notin legal_castles

\* The number of entries of the history whose position has the given key.
occurrences(key) ==
    Cardinality({i \in 1..Len(history) :
                    get_repetition_state(fen_parse(history[i])) = key})

\* C28: the repetition table counts, for every key, the entries of the
\* current history that have that key.
C28_RepetitionCounts ==
    \A key \in DOMAIN repetitions : repetitions[key] = occurrences(key)

\* C29: the state stored in the MoveInfo of a successful attempt_move is the
\* value Game::get_move_state returns right after the call.
C29_ReportedState ==
    attempt_succeeded => result.info.move_state = Game_get_move_state(TheGame)

\* C30: when another piece of the same kind and side can legally move to
\* the destination, the executed move carries the origin file or the origin
\* rank in its notation.
C30_Unambiguous ==
    attempt_executed =>
        (others_reaching(board_before, result.info.start, result.info.end) # {}
            => result.info.file_disambiguation \/ result.info.rank_disambiguation)

====
